---- MODULE Spec2Model ----
(***************************************************************************)
(* brows3 backend: the transfer queue/scheduler (TransferManager) and the  *)
(* listing cache (S3ClientManager), modelled from src-tauri/src.           *)
(*                                                                         *)
(* Transfer side.  Every section of code that runs under one lock guard    *)
(* is one atomic step.  The job table, the queue and the abort-handle map  *)
(* are the three locked collections of TransferManager; the semaphore is   *)
(* the counter `permits`.  A dispatcher is one loop spawned by             *)
(* process_queue, a task is the future spawned for one dequeued id.        *)
(*                                                                         *)
(* tokio's AbortHandle::abort does not interrupt a task that is being      *)
(* polled: it marks the task, and the task is dropped the next time it     *)
(* yields (an await that has to wait) or before its next poll.  A task     *)
(* that resumes from a suspension (first poll, end of network or disk IO)  *)
(* therefore needs aborted = FALSE, while a step that only takes a lock    *)
(* can still run after the mark; TaskDrop is the drop of a marked task.    *)
(***************************************************************************)
EXTENDS Integers, Sequences, FiniteSets, TLC

\* ------------------------------------------------------------------ bounds
MaxJobs == 2          \* job ids ever created in Spec (add_job and retry_job)
MaxDispatchers == 1   \* dispatcher loops alive at the same time
MaxBytes == 1         \* largest file / object size in bytes in Spec
MaxKeyLen == 3        \* longest object key in characters
MaxObjs == 2          \* longest object list given to set_cached_objects
PageObjs == 4         \* files in a folder that is paged through
MaxPageSize == 3      \* largest max_keys given (besides none)
MaxPages == 6         \* pages one caller asks for
MaxBuilds == 5        \* build_client calls in one run
MaxPageMatches == 600 \* keys of one listing page that match the query
Permits == 5          \* Semaphore::new(5)

None == "None"

\* ------------------------------------------------------------------ state
VARIABLES
    jobs,           \* TransferManager.jobs: id -> TransferJob (a function on the stored ids)
    queue,          \* TransferManager.queue: sequence of job ids
    abort_handles,  \* TransferManager.abort_handles: ids that have a handle stored
    permits,        \* available permits of concurrency_semaphore
    app_handle,     \* TransferManager.app_handle is Some
    nextId,         \* number of ids handed out so far (ids are fresh uuids)
    disp,           \* dispatcher loops: slot -> [pc, id]
    tasks,          \* job tasks: id -> [pc, aborted, total, n]: total is the total_bytes of
                    \* the job copy the task works on, n its byte count (both 0 when unused)
    ret,            \* the call made by the last step and what it returned
    emitted,        \* the events the last step emitted, in order
    cancelled_running, \* history: stored ids for which cancel_job returned true on InProgress
    object_cache,   \* S3ClientManager.object_cache: <<profile, bucket>> -> objects
    folder_cache,   \* S3ClientManager.folder_cache: <<profile, bucket, prefix>> -> FolderContent
    bucket_regions, \* S3ClientManager.bucket_regions: bucket -> region
    clients,        \* S3ClientManager.clients: <<profile, region>> -> client (the number of its build)
    builds,         \* number of build_client calls so far
    cop,            \* the manager operation called by the last step and what it returned
    call,           \* the command (list_objects, put_object, ...) in flight or just returned
    pager,          \* a caller of list_objects that follows the next tokens, and its pages
    lk,             \* the locks of TransferManager: holders, waiting requests, and what
                    \* each running operation has left of its requests and releases
    remote,         \* the objects in S3: a set of <<bucket, key>>
    mv,             \* the move_object command in flight or just returned
    em              \* one job with its emitters: the record, the task and cancel_job
                    \* between their write, their copy of the record and their emit,
                    \* and the transfer-update events in the order they were emitted

\* The variables of the last group are in both tuples: the steps of either
\* side, which each run under the guards they need and move no object, leave
\* them alone.
xvars == <<lk, remote, mv, em>>

tvars == <<jobs, queue, abort_handles, permits, app_handle, nextId, disp, tasks, ret, emitted,
           cancelled_running, xvars>>

cvars == <<object_cache, folder_cache, bucket_regions, clients, builds, cop, call, pager, xvars>>

vars == <<tvars, cvars>>

\* The four locks of TransferManager, and the state of each: who holds it
\* and the requests waiting for it in arrival order.
Locks == {"jobs", "queue", "abort_handles", "app_handle"}

MaxLockProcs == 3     \* operations, loops and tasks that run at the same time

LockProcs == 1..MaxLockProcs

NoLocks ==
    [ pc |-> [p \in LockProcs |-> [task |-> FALSE, prog |-> << >>, waiting |-> FALSE]],
      held |-> [l \in Locks |-> {}],
      waitq |-> [l \in Locks |-> << >>] ]

\* No move_object is running.  all_keys is the listing of a folder move (the
\* one key of a single move), i the copy the loop is at; copied, before,
\* copy_failed and moves are history: the keys whose copy_object returned Ok,
\* the objects in S3 when the command started, whether a copy_object failed,
\* and the number of moves so far.
NoMove ==
    [ pc |-> "idle", sb |-> "None", sk |-> << >>, db |-> "None", dk |-> << >>, folder |-> FALSE,
      all_keys |-> << >>, i |-> 0, copied |-> {}, before |-> {}, copy_failed |-> FALSE,
      res |-> {}, moves |-> 0 ]

\* What an update event carries of the job (and the record holds).
JobState(status, processed_bytes) == [status |-> status, processed_bytes |-> processed_bytes]

\* A job after add_job: Pending, its first event emitted, no task yet.
\* phase is where the task is in its code, snap the copy of the record an
\* emitter holds between get_job (or clone) and emit_update.
NoEmitters ==
    [ rec |-> JobState("Pending", 0),
      stream |-> <<JobState("Pending", 0)>>,
      task |-> [pc |-> "none", phase |-> "begin", snap |-> JobState("Pending", 0),
                aborted |-> FALSE],
      cancel |-> [pc |-> "idle", snap |-> JobState("Pending", 0)] ]

LimitJobs == 6        \* job ids ever created in SpecLimit

Ids == 1..(MaxJobs + LimitJobs)

TransferType == {"Upload", "Download"}

TransferStatus == {"Pending", "InProgress", "Completed", "Failed", "Paused", "Cancelled"}

NoRet == [op |-> "none", id |-> 0, val |-> None]

\* TransferJob::new: a Pending job with no progress and no group.
\* created_at (wall clock) is not modelled.
NewJob(transfer_type, bucket, bucket_region, key, local_path, total_bytes) ==
    [ bucket |-> bucket, bucket_region |-> bucket_region, key |-> key,
      local_path |-> local_path, transfer_type |-> transfer_type,
      status |-> "Pending", total_bytes |-> total_bytes, processed_bytes |-> 0,
      finished_at |-> None,
      parent_group_id |-> None, group_name |-> None, is_group_root |-> FALSE ]

\* TransferJob::with_group
WithGroup(job, group_id, name) ==
    [job EXCEPT !.parent_group_id = group_id, !.group_name = name]

\* The jobs the queue_* commands build.
JobInputs ==
    { NewJob("Upload", "b1", None, "k1", "p1", 1),
      WithGroup(NewJob("Download", "b2", "eu", "d/k2", "p2", 0), "g1", "s3://b2/d/") }

\* TransferEvent built by emit_update; nothing is emitted without an app handle.
UpdateEvent(id, job) ==
    [ name |-> "transfer-update", job_id |-> id,
      processed_bytes |-> job.processed_bytes, total_bytes |-> job.total_bytes,
      status |-> job.status, finished_at |-> job.finished_at ]

EmitUpdate(id, job) == IF app_handle THEN <<UpdateEvent(id, job)>> ELSE <<>>

AddedEvent(id, job) ==
    [ name |-> "transfer-added", job_id |-> id,
      processed_bytes |-> job.processed_bytes, total_bytes |-> job.total_bytes,
      status |-> job.status, finished_at |-> job.finished_at ]

\* Map insert / remove on a function.
Put(f, k, v) == [x \in DOMAIN f \cup {k} |-> IF x = k THEN v ELSE f[x]]

Del(f, k) == [x \in DOMAIN f \ {k} |-> f[x]]

NoTask == [pc |-> "none", aborted |-> FALSE, total |-> 0, n |-> 0]

IdleDisp == [pc |-> "idle", id |-> 0]

\* The manager after new(), with room for n dispatcher loops.
TInitLoops(n) ==
    /\ jobs = << >>
    /\ queue = << >>
    /\ abort_handles = {}
    /\ permits = Permits
    /\ app_handle = FALSE
    /\ nextId = 0
    /\ disp = [d \in 1..n |-> IdleDisp]
    /\ tasks = [i \in Ids |-> NoTask]
    /\ ret = NoRet
    /\ emitted = << >>
    /\ cancelled_running = {}
    /\ lk = NoLocks
    /\ remote = {}
    /\ mv = NoMove
    /\ em = NoEmitters

TInit == TInitLoops(MaxDispatchers)

\* ------------------------------------------------------------------ store operations

\* set_app_handle
SetAppHandle ==
    /\ ~app_handle
    /\ app_handle' = TRUE
    /\ ret' = NoRet
    /\ emitted' = << >>
    /\ UNCHANGED <<cvars, jobs, queue, abort_handles, permits, nextId, disp, tasks, cancelled_running>>

\* add_job that pushes the id twice.
AddJobEffectTwice(id, job) ==
    /\ jobs' = Put(jobs, id, job)
    /\ queue' = Append(Append(queue, id), id)
    /\ emitted' = IF app_handle
                  THEN <<AddedEvent(id, job), UpdateEvent(id, job)>>
                  ELSE << >>

\* add_job(job) for a job with a fresh id: insert, enqueue, emit both events.
AddJobEffect(id, job) ==
    /\ jobs' = Put(jobs, id, job)
    /\ queue' = Append(queue, id)
    /\ emitted' = IF app_handle
                  THEN <<AddedEvent(id, job), UpdateEvent(id, job)>>
                  ELSE << >>

\* The queue_* commands call set_app_handle before add_job, so a job is only
\* ever added with the handle set.
AddJob(maxJobs, inputs) ==
    /\ app_handle
    /\ nextId < maxJobs
    /\ \E job \in inputs :
          /\ AddJobEffect(nextId + 1, job)
          /\ nextId' = nextId + 1
          /\ ret' = [op |-> "add_job", id |-> nextId + 1, val |-> None]
    /\ UNCHANGED <<cvars, abort_handles, permits, app_handle, disp, tasks, cancelled_running>>

\* cancel_job without the status match: a finished job is cancelled too.
CancelJobAnyStatus(id) ==
    /\ ret' = [op |-> "cancel_job", id |-> id, val |-> (id \in DOMAIN jobs)]
    /\ IF id \in DOMAIN jobs
       THEN /\ jobs' = [jobs EXCEPT ![id].status = "Cancelled"]
            /\ abort_handles' = abort_handles \ {id}
            /\ tasks' = IF id \in abort_handles /\ tasks[id].pc # "none"
                         THEN [tasks EXCEPT ![id].aborted = TRUE]
                         ELSE tasks
            /\ emitted' = EmitUpdate(id, jobs'[id])
            /\ cancelled_running' = IF jobs[id].status = "InProgress"
                                     THEN cancelled_running \cup {id}
                                     ELSE cancelled_running
       ELSE /\ emitted' = << >>
            /\ UNCHANGED <<jobs, abort_handles, tasks, cancelled_running>>
    /\ UNCHANGED <<cvars, queue, permits, app_handle, nextId, disp>>

\* cancel_job(id): Pending or InProgress becomes Cancelled, and the registered
\* task, if any, is marked for abort.  Returns TRUE exactly in that case.
CancelJob(id) ==
    /\ ret' = [op |-> "cancel_job", id |-> id,
                val |-> (id \in DOMAIN jobs /\ jobs[id].status \in {"Pending", "InProgress"})]
    /\ IF id \in DOMAIN jobs /\ jobs[id].status \in {"Pending", "InProgress"}
       THEN /\ jobs' = [jobs EXCEPT ![id].status = "Cancelled"]
            /\ abort_handles' = abort_handles \ {id}
            /\ tasks' = IF id \in abort_handles /\ tasks[id].pc # "none"
                         THEN [tasks EXCEPT ![id].aborted = TRUE]
                         ELSE tasks
            /\ emitted' = EmitUpdate(id, jobs'[id])
            /\ cancelled_running' = IF jobs[id].status = "InProgress"
                                     THEN cancelled_running \cup {id}
                                     ELSE cancelled_running
       ELSE /\ emitted' = << >>
            /\ UNCHANGED <<jobs, abort_handles, tasks, cancelled_running>>
    /\ UNCHANGED <<cvars, queue, permits, app_handle, nextId, disp>>

\* remove_job that also aborts the task of the job.
RemoveJobAbortsTask(id) ==
    /\ ret' = [op |-> "remove_job", id |-> id, val |-> (id \in DOMAIN jobs)]
    /\ jobs' = IF id \in DOMAIN jobs THEN Del(jobs, id) ELSE jobs
    /\ cancelled_running' = cancelled_running \ {id}
    /\ emitted' = << >>
    /\ tasks' = IF id \in Ids /\ tasks[id].pc # "none"
                THEN [tasks EXCEPT ![id].aborted = TRUE] ELSE tasks
    /\ UNCHANGED <<cvars, queue, abort_handles, permits, app_handle, nextId, disp>>

\* remove_job(id)
RemoveJob(id) ==
    /\ ret' = [op |-> "remove_job", id |-> id, val |-> (id \in DOMAIN jobs)]
    /\ jobs' = IF id \in DOMAIN jobs THEN Del(jobs, id) ELSE jobs
    /\ cancelled_running' = cancelled_running \ {id}
    /\ emitted' = << >>
    /\ UNCHANGED <<cvars, queue, abort_handles, permits, app_handle, nextId, disp, tasks>>

\* clear_completed that also retains the Failed jobs.
ClearCompletedKeepsFailed ==
    LET keep == {i \in DOMAIN jobs : jobs[i].status \in {"Pending", "InProgress", "Failed"}}
    IN  /\ ret' = [op |-> "clear_completed", id |-> 0,
                    val |-> Cardinality(DOMAIN jobs) - Cardinality(keep)]
        /\ jobs' = [i \in keep |-> jobs[i]]
        /\ cancelled_running' = cancelled_running \cap keep
        /\ emitted' = << >>
        /\ UNCHANGED <<cvars, queue, abort_handles, permits, app_handle, nextId, disp, tasks>>

\* clear_completed: retain only Pending and InProgress jobs; returns the count removed.
ClearCompleted ==
    LET keep == {i \in DOMAIN jobs : jobs[i].status \in {"Pending", "InProgress"}}
    IN  /\ ret' = [op |-> "clear_completed", id |-> 0,
                    val |-> Cardinality(DOMAIN jobs) - Cardinality(keep)]
        /\ jobs' = [i \in keep |-> jobs[i]]
        /\ cancelled_running' = cancelled_running \cap keep
        /\ emitted' = << >>
        /\ UNCHANGED <<cvars, queue, abort_handles, permits, app_handle, nextId, disp, tasks>>

\* The retry copy without the lines that preserve the grouping.
RetryCopyNoGroup(job) ==
    NewJob(job.transfer_type, job.bucket, job.bucket_region, job.key,
           job.local_path, job.total_bytes)

\* The job retry_job builds from the job it is called on.
RetryCopy(job) ==
    [ NewJob(job.transfer_type, job.bucket, job.bucket_region, job.key,
             job.local_path, job.total_bytes)
      EXCEPT !.parent_group_id = job.parent_group_id,
             !.group_name = job.group_name,
             !.is_group_root = job.is_group_root ]

\* A retry that also resets the job it is called on.
RetryJobInPlace(maxJobs, id) ==
    IF id \in DOMAIN jobs /\ jobs[id].status \in {"Failed", "Cancelled"}
    THEN /\ nextId < maxJobs
         /\ jobs' = Put([jobs EXCEPT ![id].status = "Pending", ![id].processed_bytes = 0],
                         nextId + 1, NewJob(jobs[id].transfer_type, jobs[id].bucket,
                             jobs[id].bucket_region, jobs[id].key, jobs[id].local_path,
                             jobs[id].total_bytes))
         /\ queue' = Append(queue, nextId + 1)
         /\ emitted' = << >>
         /\ nextId' = nextId + 1
         /\ ret' = [op |-> "retry_job", id |-> id, val |-> {nextId + 1}]
         /\ UNCHANGED <<cvars, abort_handles, permits, app_handle, disp, tasks, cancelled_running>>
    ELSE /\ ret' = [op |-> "retry_job", id |-> id, val |-> {}]
         /\ emitted' = << >>
         /\ UNCHANGED <<cvars, jobs, queue, abort_handles, permits, app_handle, nextId, disp, tasks,
                        cancelled_running>>

\* retry_job(id): a Failed or Cancelled job is copied into a new job that is
\* added through add_job; anything else returns None.
RetryJob(maxJobs, id) ==
    IF id \in DOMAIN jobs /\ jobs[id].status \in {"Failed", "Cancelled"}
    THEN /\ nextId < maxJobs
         /\ AddJobEffect(nextId + 1, RetryCopy(jobs[id]))
         /\ nextId' = nextId + 1
         /\ ret' = [op |-> "retry_job", id |-> id, val |-> {nextId + 1}]
         /\ UNCHANGED <<cvars, abort_handles, permits, app_handle, disp, tasks, cancelled_running>>
    ELSE /\ ret' = [op |-> "retry_job", id |-> id, val |-> {}]
         /\ emitted' = << >>
         /\ UNCHANGED <<cvars, jobs, queue, abort_handles, permits, app_handle, nextId, disp, tasks, cancelled_running>>

\* ------------------------------------------------------------------ dispatcher (process_queue)

\* update_job_status(id, status): no effect on a removed job; a final status
\* also sets finished_at.  The event carries the record read back afterwards.
WithStatus(job, status) ==
    [job EXCEPT !.status = status,
                !.finished_at = IF status \in {"Completed", "Failed", "Cancelled"}
                                THEN "Some" ELSE @]

UpdateJobStatus(id, status) ==
    IF id \in DOMAIN jobs
    THEN /\ jobs' = [jobs EXCEPT ![id] = WithStatus(@, status)]
         /\ emitted' = EmitUpdate(id, jobs'[id])
    ELSE /\ jobs' = jobs
         /\ emitted' = << >>

\* update_job_progress(id, processed)
UpdateJobProgress(id, processed) ==
    IF id \in DOMAIN jobs
    THEN /\ jobs' = [jobs EXCEPT ![id].processed_bytes = processed]
         /\ emitted' = EmitUpdate(id, jobs'[id])
    ELSE /\ jobs' = jobs
         /\ emitted' = << >>

\* update_job_total_size(id, size)
UpdateJobTotalSize(id, size) ==
    IF id \in DOMAIN jobs
    THEN /\ jobs' = [jobs EXCEPT ![id].total_bytes = size]
         /\ emitted' = EmitUpdate(id, jobs'[id])
    ELSE /\ jobs' = jobs
         /\ emitted' = << >>

\* process_queue: spawn one dispatcher loop (in the lowest free slot).
ProcessQueue ==
    /\ \E d \in DOMAIN disp :
          /\ disp[d].pc = "idle"
          /\ \A e \in 1..(d - 1) : disp[e].pc # "idle"
          /\ disp' = [disp EXCEPT ![d] = [pc |-> "dequeue", id |-> 0]]
    /\ ret' = NoRet
    /\ emitted' = << >>
    /\ UNCHANGED <<cvars, jobs, queue, abort_handles, permits, app_handle, nextId, tasks, cancelled_running>>

\* The loop that takes the last id of the queue.
DispDequeueLast(d) ==
    /\ disp[d].pc = "dequeue"
    /\ IF queue = << >>
       THEN /\ disp' = [disp EXCEPT ![d] = IdleDisp]
            /\ queue' = queue
       ELSE /\ disp' = [disp EXCEPT ![d] = [pc |-> "acquire", id |-> queue[Len(queue)]]]
            /\ queue' = SubSeq(queue, 1, Len(queue) - 1)
    /\ ret' = NoRet
    /\ emitted' = << >>
    /\ UNCHANGED <<cvars, jobs, abort_handles, permits, app_handle, nextId, tasks, cancelled_running>>

\* Step 1 of the loop: break on an empty queue, else take the head.
DispDequeue(d) ==
    /\ disp[d].pc = "dequeue"
    /\ IF queue = << >>
       THEN /\ disp' = [disp EXCEPT ![d] = IdleDisp]
            /\ queue' = queue
       ELSE /\ disp' = [disp EXCEPT ![d] = [pc |-> "acquire", id |-> Head(queue)]]
            /\ queue' = Tail(queue)
    /\ ret' = NoRet
    /\ emitted' = << >>
    /\ UNCHANGED <<cvars, jobs, abort_handles, permits, app_handle, nextId, tasks, cancelled_running>>

\* Steps 2 and 3: wait for a permit, then spawn the task that owns it.
DispSpawn(d) ==
    /\ disp[d].pc = "acquire"
    /\ permits > 0
    /\ permits' = permits - 1
    /\ tasks' = [tasks EXCEPT ![disp[d].id] = [NoTask EXCEPT !.pc = "start"]]
    /\ disp' = [disp EXCEPT ![d].pc = "register"]
    /\ ret' = NoRet
    /\ emitted' = << >>
    /\ UNCHANGED <<cvars, jobs, queue, abort_handles, app_handle, nextId, cancelled_running>>

\* Step 4: store the abort handle of the spawned task, then loop.
DispRegister(d) ==
    /\ disp[d].pc = "register"
    /\ abort_handles' = abort_handles \cup {disp[d].id}
    /\ disp' = [disp EXCEPT ![d] = [pc |-> "dequeue", id |-> 0]]
    /\ ret' = NoRet
    /\ emitted' = << >>
    /\ UNCHANGED <<cvars, jobs, queue, permits, app_handle, nextId, tasks, cancelled_running>>

\* ------------------------------------------------------------------ job task (the future spawned in process_queue)

TaskFrame == UNCHANGED <<cvars, queue, abort_handles, permits, app_handle, nextId, disp, cancelled_running>>

\* First poll of the spawned future.
TaskPoll(id) ==
    /\ tasks[id].pc = "start"
    /\ ~tasks[id].aborted
    /\ tasks' = [tasks EXCEPT ![id].pc = "set_ip"]
    /\ ret' = NoRet
    /\ emitted' = << >>
    /\ UNCHANGED jobs
    /\ TaskFrame

\* update_job_status(id, InProgress), get_job, then the start of execute_job:
\* the client for the job's region (its construction can fail) and the
\* transfer by type.  The task works on the copy of the job it read here; a
\* job that was removed is not executed.
TaskSetInProgress(id) ==
    /\ tasks[id].pc = "set_ip"
    /\ UpdateJobStatus(id, "InProgress")
    /\ IF id \notin DOMAIN jobs
       THEN tasks' = [tasks EXCEPT ![id].pc = "rm_handle"]
       ELSE tasks' = [tasks EXCEPT
                ![id].total = IF jobs[id].transfer_type = "Download"
                              THEN jobs[id].total_bytes ELSE 0,
                ![id].pc = IF jobs[id].transfer_type = "Upload" THEN "io_up" ELSE "io_dl"]
    /\ ret' = NoRet
    /\ TaskFrame

\* Upload: ByteStream::from_path and put_object return; on success the size
\* on disk is read (the metadata call may fail, then no progress is recorded).
TaskUploadIO(id, maxBytes) ==
    /\ tasks[id].pc = "io_up"
    /\ ~tasks[id].aborted
    /\ \/ tasks' = [tasks EXCEPT ![id].pc = "fail"]
       \/ \E len \in 0..maxBytes :
             tasks' = [tasks EXCEPT ![id].pc = "up_progress", ![id].n = len]
       \/ tasks' = [tasks EXCEPT ![id].pc = "ok_check"]
    /\ ret' = NoRet
    /\ emitted' = << >>
    /\ UNCHANGED jobs
    /\ TaskFrame

\* Download: get_object, create_dir_all and File::create return.
TaskDownloadIO(id) ==
    /\ tasks[id].pc = "io_dl"
    /\ ~tasks[id].aborted
    /\ \/ tasks' = [tasks EXCEPT ![id].pc = "fail", ![id].total = 0]
       \/ tasks' = [tasks EXCEPT ![id].pc = "dl_loop", ![id].n = 0]
    /\ ret' = NoRet
    /\ emitted' = << >>
    /\ UNCHANGED jobs
    /\ TaskFrame

\* One round of the download loop: try_next and write_all return.  A chunk
\* is one byte; progress is reported only when 100 ms have passed.
TaskChunk(id, maxBytes) ==
    /\ tasks[id].pc = "dl_loop"
    /\ ~tasks[id].aborted
    /\ \/ tasks' = [tasks EXCEPT ![id].pc = "fail", ![id].total = 0, ![id].n = 0]
       \/ /\ tasks[id].n < maxBytes
          /\ \E due \in BOOLEAN :
                tasks' = [tasks EXCEPT ![id].n = @ + 1,
                                       ![id].pc = IF due THEN "dl_progress" ELSE "dl_loop"]
       \/ tasks' = [tasks EXCEPT ![id].pc = "dl_final"]
    /\ ret' = NoRet
    /\ emitted' = << >>
    /\ UNCHANGED jobs
    /\ TaskFrame

\* update_job_progress with the task's byte count: after an upload, inside
\* the download loop, and after the download loop.
TaskProgress(id) ==
    /\ tasks[id].pc \in {"up_progress", "dl_progress", "dl_final"}
    /\ UpdateJobProgress(id, tasks[id].n)
    /\ tasks' = [tasks EXCEPT ![id] =
                    CASE @.pc = "up_progress" -> [@ EXCEPT !.pc = "ok_check", !.n = 0]
                      [] @.pc = "dl_progress" -> [@ EXCEPT !.pc = "dl_loop"]
                      [] OTHER -> IF @.total = 0
                                  THEN [@ EXCEPT !.pc = "dl_backfill"]
                                  ELSE [@ EXCEPT !.pc = "ok_check", !.total = 0, !.n = 0]]
    /\ ret' = NoRet
    /\ TaskFrame

\* Download of a job declared with total_bytes = 0: update_job_total_size.
TaskBackfill(id) ==
    /\ tasks[id].pc = "dl_backfill"
    /\ UpdateJobTotalSize(id, tasks[id].n)
    /\ tasks' = [tasks EXCEPT ![id].pc = "ok_check", ![id].n = 0]
    /\ ret' = NoRet
    /\ TaskFrame

\* execute_job returned Ok: read the job again and look for a cancel.
TaskCheck(id) ==
    /\ tasks[id].pc = "ok_check"
    /\ tasks' = [tasks EXCEPT ![id].pc =
                    IF id \in DOMAIN jobs /\ jobs[id].status # "Cancelled"
                    THEN "complete" ELSE "rm_handle"]
    /\ ret' = NoRet
    /\ emitted' = << >>
    /\ UNCHANGED jobs
    /\ TaskFrame

\* The Ok arm that ends the task without recording the completion.
TaskCompleteStatusKept(id) ==
    /\ tasks[id].pc = "complete"
    /\ tasks' = [tasks EXCEPT ![id].pc = "rm_handle"]
    /\ ret' = NoRet
    /\ emitted' = << >>
    /\ UNCHANGED jobs
    /\ TaskFrame

\* update_job_status(id, Completed)
TaskComplete(id) ==
    /\ tasks[id].pc = "complete"
    /\ UpdateJobStatus(id, "Completed")
    /\ tasks' = [tasks EXCEPT ![id].pc = "rm_handle"]
    /\ ret' = NoRet
    /\ TaskFrame

\* The Err arm that ends the task without recording the failure.
TaskFailStatusKept(id) ==
    /\ tasks[id].pc = "fail"
    /\ tasks' = [tasks EXCEPT ![id].pc = "rm_handle"]
    /\ ret' = NoRet
    /\ emitted' = << >>
    /\ UNCHANGED jobs
    /\ TaskFrame

\* execute_job returned Err: update_job_status(id, Failed(e))
TaskFail(id) ==
    /\ tasks[id].pc = "fail"
    /\ UpdateJobStatus(id, "Failed")
    /\ tasks' = [tasks EXCEPT ![id].pc = "rm_handle"]
    /\ ret' = NoRet
    /\ TaskFrame

\* End of the task: remove the abort handle, drop the permit.
TaskRemoveHandle(id) ==
    /\ tasks[id].pc = "rm_handle"
    /\ abort_handles' = abort_handles \ {id}
    /\ permits' = permits + 1
    /\ tasks' = [tasks EXCEPT ![id] = NoTask]
    /\ ret' = NoRet
    /\ emitted' = << >>
    /\ UNCHANGED <<cvars, jobs, queue, app_handle, nextId, disp, cancelled_running>>

\* The dropped task keeps its permit.
TaskDropKeepsPermit(id) ==
    /\ tasks[id].pc # "none"
    /\ tasks[id].aborted
    /\ permits' = permits
    /\ tasks' = [tasks EXCEPT ![id] = NoTask]
    /\ ret' = NoRet
    /\ emitted' = << >>
    /\ UNCHANGED <<cvars, jobs, queue, abort_handles, app_handle, nextId, disp, cancelled_running>>

\* A task marked by abort is dropped at a yield; its permit goes with it.
TaskDrop(id) ==
    /\ tasks[id].pc # "none"
    /\ tasks[id].aborted
    /\ permits' = permits + 1
    /\ tasks' = [tasks EXCEPT ![id] = NoTask]
    /\ ret' = NoRet
    /\ emitted' = << >>
    /\ UNCHANGED <<cvars, jobs, queue, abort_handles, app_handle, nextId, disp, cancelled_running>>

TaskStep(id, maxBytes) ==
    \/ TaskPoll(id)
    \/ TaskSetInProgress(id)
    \/ TaskUploadIO(id, maxBytes)
    \/ TaskDownloadIO(id)
    \/ TaskChunk(id, maxBytes)
    \/ TaskProgress(id)
    \/ TaskBackfill(id)
    \/ TaskCheck(id)
    \/ TaskComplete(id)
    \/ TaskFail(id)
    \/ TaskRemoveHandle(id)
    \/ TaskDrop(id)

\* ------------------------------------------------------------------ listing cache (S3ClientManager)
\* A key or prefix is a sequence of characters; Ord is the byte order of the
\* characters used ('/' sorts before the letters).  Of an S3Object only the
\* key is modelled: last_modified, size and storage_class are carried along.

Chars == {"/", "a"}

Ord(c) ==
    CASE c = "/" -> 47
      [] c = "a" -> 97
      [] c = "b" -> 98
      [] c = "c" -> 99
      [] c = "d" -> 100
      [] c = "e" -> 101

S3Object(key) == [key |-> key]

EmptyFolder == [objects |-> << >>, common_prefixes |-> << >>]

\* str::cmp on two keys: a < b
RECURSIVE StrLess(_, _)
StrLess(a, b) ==
    IF b = << >> THEN FALSE
    ELSE IF a = << >> THEN TRUE
    ELSE IF Head(a) # Head(b) THEN Ord(Head(a)) < Ord(Head(b))
    ELSE StrLess(Tail(a), Tail(b))

\* content.common_prefixes.sort(): a stable sort, as insertion sort.
RECURSIVE InsertPrefix(_, _)
InsertPrefix(x, sorted) ==
    IF sorted = << >> THEN <<x>>
    ELSE IF StrLess(x, Head(sorted)) THEN <<x>> \o sorted
    ELSE <<Head(sorted)>> \o InsertPrefix(x, Tail(sorted))

RECURSIVE SortPrefixes(_)
SortPrefixes(seq) ==
    IF seq = << >> THEN << >>
    ELSE InsertPrefix(seq[Len(seq)], SortPrefixes(SubSeq(seq, 1, Len(seq) - 1)))

\* content.objects.sort_by(|a, b| a.key.cmp(&b.key)): stable, by key.
RECURSIVE InsertObject(_, _)
InsertObject(x, sorted) ==
    IF sorted = << >> THEN <<x>>
    ELSE IF StrLess(x.key, Head(sorted).key) THEN <<x>> \o sorted
    ELSE <<Head(sorted)>> \o InsertObject(x, Tail(sorted))

RECURSIVE SortObjects(_)
SortObjects(seq) ==
    IF seq = << >> THEN << >>
    ELSE InsertObject(seq[Len(seq)], SortObjects(SubSeq(seq, 1, Len(seq) - 1)))

\* key.rfind('/'): the 1-based index of the last '/', 0 when there is none.
RFind(key) ==
    IF \E i \in 1..Len(key) : key[i] = "/"
    THEN CHOOSE i \in 1..Len(key) : key[i] = "/" /\ \A j \in (i + 1)..Len(key) : key[j] # "/"
    ELSE 0

EndsWithSlash(key) == key # << >> /\ key[Len(key)] = "/"

\* key.split('/'): the parts between the slashes ("a/b/" gives a, b and an empty part).
RECURSIVE Split(_)
Split(key) ==
    IF RFind(key) = 0 THEN <<key>>
    ELSE Split(SubSeq(key, 1, RFind(key) - 1)) \o <<SubSeq(key, RFind(key) + 1, Len(key))>>

\* The immediate parent prefix set_cached_objects computes for a key.
ParentPrefix(key) ==
    IF RFind(key) = 0 THEN << >>
    ELSE IF EndsWithSlash(key)
         THEN LET without_last == SubSeq(key, 1, RFind(key) - 1)
              IN  IF RFind(without_last) # 0
                  THEN SubSeq(key, 1, RFind(without_last))
                  ELSE << >>
         ELSE SubSeq(key, 1, RFind(key))

\* The number of leading parts that are walked as folders.
Depth(key) == IF EndsWithSlash(key) THEN Len(Split(key)) - 2 ELSE Len(Split(key)) - 1

\* folders.entry(prefix).or_default()
Entry(folders, prefix) == IF prefix \in DOMAIN folders THEN folders[prefix] ELSE EmptyFolder

Seen(seen, prefix) == IF prefix \in DOMAIN seen THEN seen[prefix] ELSE {}

\* The loop `for i in 0..depth` over the parts of one key: acc is
\* [folders, seen], path the prefix built so far, i the next part (1-based).
RECURSIVE WalkParts(_, _, _, _, _)
WalkParts(acc, parts, depth, i, path) ==
    IF i > depth THEN acc
    ELSE LET parent == path
             next == path \o parts[i] \o <<"/">>
             known == next \in Seen(acc.seen, parent)
             acc2 == IF known
                     THEN acc
                     ELSE [ folders |-> Put(acc.folders, parent,
                                [Entry(acc.folders, parent) EXCEPT
                                    !.common_prefixes = Append(@, next)]),
                            seen |-> Put(acc.seen, parent, Seen(acc.seen, parent) \cup {next}) ]
         IN  WalkParts(acc2, parts, depth, i + 1, next)

\* The body of `for obj in &objects` for one object.
AddObject(acc, obj) ==
    LET key == obj.key
        withObj == IF ~EndsWithSlash(key)
                   THEN [acc EXCEPT !.folders = Put(acc.folders, ParentPrefix(key),
                            [Entry(acc.folders, ParentPrefix(key)) EXCEPT
                                !.objects = Append(@, obj)])]
                   ELSE acc
    IN  IF RFind(key) # 0
        THEN WalkParts(withObj, Split(key), Depth(key), 1, << >>)
        ELSE withObj

\* The folders map after the loop over all objects; the root always exists.
RECURSIVE BuildFolders(_)
BuildFolders(objects) ==
    IF objects = << >>
    THEN [folders |-> Put(<< >>, << >>, EmptyFolder), seen |-> << >>]
    ELSE AddObject(BuildFolders(SubSeq(objects, 1, Len(objects) - 1)), objects[Len(objects)])

\* The stored content without the sort of the objects.
SortedPrefixesOnly(content) ==
    [ objects |-> content.objects,
      common_prefixes |-> SortPrefixes(content.common_prefixes) ]

\* What is stored for one folder: both lists sorted.
Sorted(content) ==
    [ objects |-> SortObjects(content.objects),
      common_prefixes |-> SortPrefixes(content.common_prefixes) ]

\* has_cache
has_cache(p, b) == <<p, b>> \in DOMAIN object_cache

\* What a step that calls no manager operation directly leaves in cop.
NoOp == [op |-> "none", p |-> None, arg |-> None, val |-> None]

\* No command in flight.
NoCall ==
    [ pc |-> "idle", op |-> None, p |-> None, b |-> None, hint |-> None, prefix |-> << >>,
      token |-> {}, max_keys |-> {}, bypass |-> FALSE, hit |-> FALSE, prev |-> None,
      region |-> None, client |-> None, err |-> None, found |-> None, requests |-> << >>,
      output |-> {}, res |-> {}, query |-> << >>, calls |-> 0, matched |-> 0,
      wlock |-> FALSE ]

\* set_cached_objects: the insertions into folder_cache and object_cache.
SetCachedEffect(p, b, objects) ==
    LET folders == BuildFolders(objects).folders
        fresh == {<<p, b, prefix>> : prefix \in DOMAIN folders}
    IN  /\ folder_cache' = [k \in DOMAIN folder_cache \cup fresh |->
                               IF k \in fresh THEN Sorted(folders[k[3]]) ELSE folder_cache[k]]
        /\ object_cache' = Put(object_cache, <<p, b>>, objects)

\* set_cached_objects(profile_id, bucket_name, objects)
SetCachedObjects(p, b, objects) ==
    /\ SetCachedEffect(p, b, objects)
    /\ cop' = [op |-> "set_cached_objects", p |-> p, arg |-> b, val |-> None]
    /\ UNCHANGED <<bucket_regions, clients, builds, call, pager, tvars>>

\* remove_bucket_cache keeping only the folder entries that differ from the
\* pair in profile and in bucket.
RemoveBucketEffectEitherMatches(p, b) ==
    /\ object_cache' = Del(object_cache, <<p, b>>)
    /\ folder_cache' = [k \in {x \in DOMAIN folder_cache : x[1] # p /\ x[2] # b} |->
                           folder_cache[k]]
    /\ bucket_regions' = Del(bucket_regions, b)

\* remove_bucket_cache: the object list, the folder entries of the pair, the
\* region of the bucket name.
RemoveBucketEffect(p, b) ==
    /\ object_cache' = Del(object_cache, <<p, b>>)
    /\ folder_cache' = [k \in {x \in DOMAIN folder_cache : x[1] # p \/ x[2] # b} |->
                           folder_cache[k]]
    /\ bucket_regions' = Del(bucket_regions, b)

\* remove_bucket_cache(profile_id, bucket_name)
RemoveBucketCache(p, b) ==
    /\ RemoveBucketEffect(p, b)
    /\ cop' = [op |-> "remove_bucket_cache", p |-> p, arg |-> b, val |-> None]
    /\ UNCHANGED <<clients, builds, call, pager, tvars>>

\* clear_cache that leaves the folder entries.
ClearCacheKeepsFolders ==
    /\ clients' = << >>
    /\ object_cache' = << >>
    /\ folder_cache' = folder_cache
    /\ bucket_regions' = << >>
    /\ cop' = [op |-> "clear_cache", p |-> None, arg |-> None, val |-> None]
    /\ UNCHANGED <<builds, call, pager, tvars>>

\* clear_cache
ClearCache ==
    /\ clients' = << >>
    /\ object_cache' = << >>
    /\ folder_cache' = << >>
    /\ bucket_regions' = << >>
    /\ cop' = [op |-> "clear_cache", p |-> None, arg |-> None, val |-> None]
    /\ UNCHANGED <<builds, call, pager, tvars>>

\* ---- the client map ----

\* An Option is the empty set (None) or a one-element set (Some).
UnwrapOr(opt, d) == IF opt = {} THEN d ELSE CHOOSE x \in opt : TRUE

DefaultRegion == "us-east-1"

Regions == {"us-east-1", "eu-west-1"}

\* Profile.region of the stored profiles: p2 names a region, the others none.
ProfileRegion(p) == IF p = "p2" THEN {"eu-west-1"} ELSE {}

\* The client getter that builds on every call, cached or not.
ClientEffectAlwaysBuild(p, region) ==
    /\ builds' = builds + 1
    /\ clients' = Put(clients, <<p, region>>, builds + 1)
    /\ cop' = [op |-> "get_client_for_region", p |-> p, arg |-> region, val |-> builds + 1]

\* get_client_for_region: build_client and insert when the key is absent,
\* then return the client stored under the key. build_client never fails.
ClientEffect(p, region) ==
    LET key == <<p, region>>
    IN  IF key \in DOMAIN clients
        THEN /\ UNCHANGED <<clients, builds>>
             /\ cop' = [op |-> "get_client_for_region", p |-> p, arg |-> region,
                        val |-> clients[key]]
        ELSE /\ builds' = builds + 1
             /\ clients' = Put(clients, key, builds + 1)
             /\ cop' = [op |-> "get_client_for_region", p |-> p, arg |-> region,
                        val |-> builds + 1]

\* get_client_for_region(profile, region)
GetClientForRegion(p, region) ==
    /\ builds < MaxBuilds
    /\ ClientEffect(p, region)
    /\ UNCHANGED <<object_cache, folder_cache, bucket_regions, call, pager, tvars>>

\* get_client(profile): the profile's region, or us-east-1
GetClient(p) ==
    /\ builds < MaxBuilds
    /\ ClientEffect(p, UnwrapOr(ProfileRegion(p), DefaultRegion))
    /\ UNCHANGED <<object_cache, folder_cache, bucket_regions, call, pager, tvars>>

\* ---- list_objects: the answer from the listing cache (commands/objects.rs) ----

Digit == <<"0", "1", "2", "3", "4", "5", "6", "7", "8", "9">>

\* usize::to_string: the decimal digits, most significant first.
RECURSIVE UsizeToString(_)
UsizeToString(n) ==
    IF n < 10 THEN <<Digit[n + 1]>> ELSE Append(UsizeToString(n \div 10), Digit[(n % 10) + 1])

\* The value of a string of decimal digits.
RECURSIVE DigitsValue(_)
DigitsValue(t) ==
    IF t = << >> THEN 0
    ELSE 10 * DigitsValue(SubSeq(t, 1, Len(t) - 1))
         + ((CHOOSE i \in 1..10 : Digit[i] = t[Len(t)]) - 1)

\* str::parse::<usize>().ok(): digits after an optional '+'; anything else is None.
ParseUsize(t) ==
    LET digits == IF t # << >> /\ t[1] = "+" THEN Tail(t) ELSE t
    IN  IF digits # << >> /\ \A i \in 1..Len(digits) : \E d \in 1..10 : Digit[d] = digits[i]
        THEN {DigitsValue(digits)}
        ELSE {}

\* max_keys.unwrap_or(1000)
DefaultMaxKeys == 1000

\* Ok(ListObjectsResult { .. })
OkResult(objects, common_prefixes, next_token, prefix, region) ==
    [ ok |-> TRUE, err |-> << >>, objects |-> objects, common_prefixes |-> common_prefixes,
      next_continuation_token |-> next_token, is_truncated |-> next_token # {},
      prefix |-> prefix, bucket_region |-> region ]

\* Err(..) with its message, and the panic of a slice whose start is past its end.
ErrResult(err, prefix) ==
    [ ok |-> FALSE, err |-> err, objects |-> << >>, common_prefixes |-> << >>,
      next_continuation_token |-> {}, is_truncated |-> FALSE, prefix |-> prefix,
      bucket_region |-> None ]

\* (offset + max).min(len) for max = max_keys.unwrap_or(1000) as usize.  A
\* negative i32 m is the usize 2^64 + m: the sum offset + max is either below
\* 2^64 and above every length, or it wraps to offset + m (and panics at the
\* same inputs in a build with overflow checks).
PageEnd(offset, max_keys, len) ==
    LET m == UnwrapOr(max_keys, DefaultMaxKeys)
    IN  IF m < 0 /\ offset + m < 0 THEN len
        ELSE IF offset + m < len THEN offset + m ELSE len

\* The page with the prefixes on every page, not only on the first.
CachedPagePrefixesOnEveryPage(content, token, max_keys, prefix, hint) ==
    LET offset == UnwrapOr(UNION {ParseUsize(t) : t \in token}, 0)
        len == Len(content.objects)
        end == PageEnd(offset, max_keys, len)
    IN  IF offset > end
        THEN ErrResult(<<"panic">>, prefix)
        ELSE OkResult(SubSeq(content.objects, offset + 1, end), content.common_prefixes,
                      IF end < len THEN {UsizeToString(end)} ELSE {}, prefix, hint)

\* One page of a cached folder: content.objects[offset..end], the prefixes on
\* the page at offset 0, the end offset as next token while objects remain.
\* A slice whose start is past its end panics.
CachedPage(content, token, max_keys, prefix, hint) ==
    LET offset == UnwrapOr(UNION {ParseUsize(t) : t \in token}, 0)
        len == Len(content.objects)
        end == PageEnd(offset, max_keys, len)
    IN  IF offset > end
        THEN ErrResult(<<"panic">>, prefix)
        ELSE OkResult(SubSeq(content.objects, offset + 1, end),
                      IF offset = 0 THEN content.common_prefixes ELSE << >>,
                      IF end < len THEN {UsizeToString(end)} ELSE {}, prefix, hint)

\* get_object_from_cache: the first cached object of the pair with this key.
get_object_from_cache(p, b, key) ==
    IF <<p, b>> \in DOMAIN object_cache
    THEN LET objs == object_cache[<<p, b>>]
             hits == {i \in 1..Len(objs) : objs[i].key = key}
         IN  IF hits = {} THEN {} ELSE {objs[CHOOSE i \in hits : \A j \in hits : i <= j]}
    ELSE {}

\* The cached answer without the look for an object whose key is the prefix.
CachedResultFolderOrNothing(p, b, prefix, token, max_keys, hint) ==
    IF <<p, b, prefix>> \in DOMAIN folder_cache
    THEN CachedPage(folder_cache[<<p, b, prefix>>], token, max_keys, prefix, hint)
    ELSE OkResult(<< >>, << >>, {}, prefix, hint)

\* What list_objects returns for a pair that has a listing cached: a page of
\* the folder entry, else the object whose key is the prefix, else nothing.
CachedResult(p, b, prefix, token, max_keys, hint) ==
    IF <<p, b, prefix>> \in DOMAIN folder_cache
    THEN CachedPage(folder_cache[<<p, b, prefix>>], token, max_keys, prefix, hint)
    ELSE LET obj == get_object_from_cache(p, b, prefix)
         IN  IF obj # {}
             THEN OkResult(<<CHOOSE o \in obj : TRUE>>, << >>, {}, prefix, hint)
             ELSE OkResult(<< >>, << >>, {}, prefix, hint)

\* ---- commands that go to the network (commands/objects.rs, commands/operations.rs) ----

\* put_object, get_object, delete_object, copy_object
ObjectOps == {"put_object", "get_object", "delete_object", "copy_object"}

\* What the store answers to a listing request, and the errors of a request.
NetOutputs ==
    { [objects |-> << >>, common_prefixes |-> << >>],
      [objects |-> <<S3Object(<<"a">>)>>, common_prefixes |-> << >>] }

NetErrors == {"AccessDenied", "PermanentRedirect"}

\* The region a command starts with, the argument before the cached region.
ReadRegionHintFirst(b, hint) ==
    IF hint # None THEN hint
    ELSE IF b \in DOMAIN bucket_regions THEN bucket_regions[b] ELSE None

\* get_bucket_region(bucket).or(bucket_region): the cached region of the
\* bucket name, else the region argument.
ReadRegion(b, hint) ==
    IF b \in DOMAIN bucket_regions THEN bucket_regions[b] ELSE hint

\* prefix.trim_end_matches('/')
RECURSIVE TrimSlashes(_)
TrimSlashes(s) ==
    IF s # << >> /\ s[Len(s)] = "/" THEN TrimSlashes(SubSeq(s, 1, Len(s) - 1)) ELSE s

\* The region stored by the call that has just returned, when that call was a
\* list_objects for bucket b that found the region and succeeded on retry.
JustDiscovered(b) ==
    IF /\ call.pc = "returned" /\ call.op = "list_objects" /\ call.b = b
       /\ call.found # None /\ \E r \in call.res : r.ok
    THEN call.found
    ELSE None

\* The arguments and locals of a command that starts.
StartCall(op, p, b, hint, prefix, token, max_keys, bypass) ==
    [NoCall EXCEPT !.op = op, !.p = p, !.b = b, !.hint = hint, !.prefix = prefix,
                   !.token = token, !.max_keys = max_keys, !.bypass = bypass,
                   !.prev = IF op = "list_objects" THEN JustDiscovered(b) ELSE None]

\* The command in flight moves on, touching no manager state.
CallOnly == UNCHANGED <<object_cache, folder_cache, bucket_regions, clients, builds, pager, tvars>>

\* The cache test that asks for the folder entry, not for the pair's listing.
CacheHitFolderEntry(p, b, prefix, bypass) ==
    ~bypass /\ <<p, b, prefix>> \in DOMAIN folder_cache

\* !bypass_cache.unwrap_or(false) && has_cache(profile, bucket)
CacheHit(p, b, prefix, bypass) == ~bypass /\ has_cache(p, b)

\* list_objects, up to the end of the read-locked cache block: the answer
\* from the cache when the pair has a listing and bypass is off.
ListObjectsStart(p, b, hint, prefix, token, max_keys, bypass) ==
    /\ call.pc \in {"idle", "returned"}
    /\ LET c == StartCall("list_objects", p, b, hint, prefix, token, max_keys, bypass)
       IN  IF CacheHit(p, b, prefix, bypass)
           THEN call' = [c EXCEPT !.pc = "returned", !.hit = TRUE,
                                  !.res = {CachedResult(p, b, prefix, token, max_keys, hint)}]
           ELSE call' = [c EXCEPT !.pc = IF bypass THEN "evict" ELSE "region"]
    /\ cop' = NoOp
    /\ CallOnly

\* put_object / get_object / delete_object / copy_object up to the region read.
ObjectOpStart(op, p, b, hint) ==
    /\ call.pc \in {"idle", "returned"}
    /\ call' = [StartCall(op, p, b, hint, << >>, {}, {}, FALSE) EXCEPT !.pc = "region"]
    /\ cop' = NoOp
    /\ CallOnly

\* list_objects with bypass: remove_bucket_cache under the write lock.
CmdEvict ==
    /\ call.pc = "evict"
    /\ RemoveBucketEffect(call.p, call.b)
    /\ cop' = [op |-> "remove_bucket_cache", p |-> call.p, arg |-> call.b, val |-> None]
    /\ call' = [call EXCEPT !.pc = "region"]
    /\ UNCHANGED <<clients, builds, pager, tvars>>

\* The region read under the read lock.
CmdReadRegion ==
    /\ call.pc = "region"
    /\ call' = [call EXCEPT !.pc = "client", !.region = ReadRegion(call.b, call.hint)]
    /\ cop' = NoOp
    /\ CallOnly

\* The commands that take the write lock in the function body, not in a
\* block: the guard, and the client borrowed from it, live until the return.
KeepsWriteLock(op) == op \in {"copy_object", "list_buckets"}

\* list_buckets: no region is read; the client is the profile's default one.
ListBucketsStart(p) ==
    /\ call.pc \in {"idle", "returned"}
    /\ call' = [StartCall("list_buckets", p, None, None, << >>, {}, {}, FALSE) EXCEPT !.pc = "client"]
    /\ cop' = NoOp
    /\ CallOnly

\* The client step that always takes the profile's default client.
CmdGetClientProfileDefault ==
    /\ call.pc = "client"
    /\ LET region == UnwrapOr(ProfileRegion(call.p), DefaultRegion)
       IN  /\ ClientEffect(call.p, region)
           /\ call' = [call EXCEPT !.pc = "send", !.client = region,
                                   !.wlock = KeepsWriteLock(call.op)]
    /\ UNCHANGED <<object_cache, folder_cache, bucket_regions, pager, tvars>>

\* The client for the region read, or the profile's default client, taken
\* under the write lock; the lock is released with the block, if there is one.
CmdGetClient ==
    /\ call.pc = "client"
    /\ LET region == IF call.region # None THEN call.region
                     ELSE UnwrapOr(ProfileRegion(call.p), DefaultRegion)
       IN  /\ ClientEffect(call.p, region)
           /\ call' = [call EXCEPT !.pc = "send", !.client = region,
                                   !.wlock = KeepsWriteLock(call.op)]
    /\ UNCHANGED <<object_cache, folder_cache, bucket_regions, pager, tvars>>

\* The request of the command, sent once. An object operation returns its
\* result or its error; list_objects goes on to the region lookup on error.
CmdSend(ok, output, e) ==
    /\ call.pc = "send" /\ call.op # "search_objects"
    /\ LET sent == Append(call.requests, [kind |-> call.op, region |-> call.client])
       IN  call' =
             IF call.op = "list_objects"
             THEN IF ok
                  THEN [call EXCEPT !.requests = sent, !.pc = "map", !.output = {output}]
                  ELSE [call EXCEPT !.requests = sent, !.pc = "retry_client", !.err = e]
             ELSE IF ok
                  THEN [call EXCEPT !.requests = sent, !.pc = "returned", !.wlock = FALSE,
                                    !.res = {OkResult(<< >>, << >>, {}, << >>, call.region)}]
                  ELSE [call EXCEPT !.requests = sent, !.pc = "returned", !.err = e,
                                    !.wlock = FALSE,
                                    !.res = {ErrResult(<<e>>, << >>)}]
    /\ cop' = NoOp
    /\ CallOnly

\* list_objects after a failed request: the default client for the lookup.
CmdRetryClient ==
    /\ call.pc = "retry_client"
    /\ LET region == UnwrapOr(ProfileRegion(call.p), DefaultRegion)
       IN  /\ ClientEffect(call.p, region)
           /\ call' = [call EXCEPT !.pc = "lookup", !.client = region]
    /\ UNCHANGED <<object_cache, folder_cache, bucket_regions, pager, tvars>>

\* The region lookup (get_bucket_location). When it fails the command returns
\* the error of the first request.
CmdLookup(ok, region) ==
    /\ call.pc = "lookup"
    /\ LET sent == Append(call.requests, [kind |-> "lookup", region |-> call.client])
       IN  call' =
             IF ok
             THEN [call EXCEPT !.requests = sent, !.pc = "new_client", !.found = region]
             ELSE [call EXCEPT !.requests = sent, !.pc = "returned",
                               !.res = {ErrResult(<<call.err>>, call.prefix)}]
    /\ cop' = NoOp
    /\ CallOnly

\* The client for the region found.
CmdNewClient ==
    /\ call.pc = "new_client"
    /\ ClientEffect(call.p, call.found)
    /\ call' = [call EXCEPT !.pc = "set_region", !.client = call.found]
    /\ UNCHANGED <<object_cache, folder_cache, bucket_regions, pager, tvars>>

\* bucket_region = Some(new_region); set_bucket_region(bucket, new_region)
CmdSetRegion ==
    /\ call.pc = "set_region"
    /\ bucket_regions' = Put(bucket_regions, call.b, call.found)
    /\ cop' = [op |-> "set_bucket_region", p |-> None, arg |-> call.b, val |-> call.found]
    /\ call' = [call EXCEPT !.pc = "retry", !.region = call.found]
    /\ UNCHANGED <<object_cache, folder_cache, clients, builds, pager, tvars>>

\* The one retry. When it fails the command returns "Retry failed: " and the
\* error of the retry.
CmdRetrySend(ok, output, e) ==
    /\ call.pc = "retry"
    /\ LET sent == Append(call.requests, [kind |-> "retry", region |-> call.client])
       IN  call' =
             IF ok
             THEN [call EXCEPT !.requests = sent, !.pc = "map", !.output = {output}]
             ELSE [call EXCEPT !.requests = sent, !.pc = "returned",
                               !.res = {ErrResult(<<"Retry failed: ", e>>, call.prefix)}]
    /\ cop' = NoOp
    /\ CallOnly

\* The output mapped to the result. An empty output for a prefix that is not
\* only slashes goes on to the HeadObject fallback; else the command returns.
CmdMap ==
    /\ call.pc = "map"
    /\ LET out == CHOOSE o \in call.output : TRUE
       IN  call' =
             IF /\ out.objects = << >> /\ out.common_prefixes = << >>
                /\ call.prefix # << >> /\ TrimSlashes(call.prefix) # << >>
             THEN [call EXCEPT !.pc = "head_client"]
             ELSE [call EXCEPT !.pc = "returned",
                               !.res = {OkResult(out.objects, out.common_prefixes, {},
                                                 call.prefix, call.region)}]
    /\ cop' = NoOp
    /\ CallOnly

\* The client for the HeadObject request.
CmdHeadClient ==
    /\ call.pc = "head_client"
    /\ LET region == IF call.region # None THEN call.region
                     ELSE UnwrapOr(ProfileRegion(call.p), DefaultRegion)
       IN  /\ ClientEffect(call.p, region)
           /\ call' = [call EXCEPT !.pc = "head", !.client = region]
    /\ UNCHANGED <<object_cache, folder_cache, bucket_regions, pager, tvars>>

\* HeadObject for the prefix without its trailing slashes: the object when it
\* is there, and the command returns Ok either way.
CmdHead(ok) ==
    /\ call.pc = "head"
    /\ call' = [call EXCEPT
                  !.requests = Append(@, [kind |-> "head", region |-> call.client]),
                  !.pc = "returned",
                  !.res = {OkResult(IF ok THEN <<S3Object(TrimSlashes(call.prefix))>> ELSE << >>,
                                    << >>, {}, call.prefix, call.region)}]
    /\ cop' = NoOp
    /\ CallOnly

\* The caller has its result and calls nothing for now.
CallDone ==
    /\ call.pc = "returned"
    /\ call' = NoCall
    /\ cop' = NoOp
    /\ CallOnly

\* ---- search_objects (commands/objects.rs) ----

\* max_search_api_calls and result_limit
MaxSearchApiCalls == 50

ResultLimit == 1000

\* The cached objects under the prefix whose lower-cased key contains the
\* lower-cased query (upper case is the letter A here).
CachedSearch(objs, prefix, query) ==
    LET Lower(s) == [i \in 1..Len(s) |-> IF s[i] = "A" THEN "a" ELSE s[i]]
        StartsWith(s, t) == Len(t) <= Len(s) /\ SubSeq(s, 1, Len(t)) = t
        Contains(s, t) == \E i \in 1..(Len(s) + 1) :
                              i + Len(t) - 1 <= Len(s) /\ SubSeq(s, i, i + Len(t) - 1) = t
    IN  SelectSeq(objs, LAMBDA o : StartsWith(o.key, prefix) /\ Contains(Lower(o.key), Lower(query)))

\* Ok(objects) and Err(..) of search_objects; objects by their number.
SearchResult(ok, err, count) == [ok |-> ok, err |-> err, count |-> count]

\* A page of the listing has arrived: calls += 1, its matching keys are
\* pushed, and the loop ends on the result limit, on the last page or on the
\* call limit; else the next page is asked for.
AfterPage(c, page) ==
    LET calls == c.calls + 1
        matched == c.matched + page.matches
    IN  IF matched >= ResultLimit \/ ~page.truncated \/ calls >= MaxSearchApiCalls
        THEN [c EXCEPT !.calls = calls, !.matched = matched, !.pc = "returned",
                       !.res = {SearchResult(TRUE, << >>, matched)}]
        ELSE [c EXCEPT !.calls = calls, !.matched = matched, !.pc = "send"]

\* search_objects up to the end of the cache block: the filtered cached
\* objects when the pair has a listing.
SearchStart(p, b, hint, prefix, query) ==
    /\ call.pc \in {"idle", "returned"}
    /\ LET c == [StartCall("search_objects", p, b, hint, prefix, {}, {}, FALSE)
                    EXCEPT !.query = query]
       IN  IF has_cache(p, b)
           THEN call' = [c EXCEPT !.pc = "returned", !.hit = TRUE,
                           !.res = {SearchResult(TRUE, << >>,
                                      Len(CachedSearch(object_cache[<<p, b>>], prefix, query)))}]
           ELSE call' = [c EXCEPT !.pc = "region"]
    /\ cop' = NoOp
    /\ CallOnly

\* The listing request of the loop fails after a page and the search returns
\* the error.
SearchSendErrAfterPages(ok, page, e) ==
    /\ call.pc = "send" /\ call.op = "search_objects"
    /\ LET sent == [call EXCEPT !.requests = Append(@, [kind |-> call.op, region |-> call.client])]
       IN  call' = IF ok THEN AfterPage(sent, page)
                   ELSE IF call.calls > 0
                        THEN [sent EXCEPT !.pc = "returned",
                                          !.res = {SearchResult(FALSE, <<e>>, 0)}]
                        ELSE [sent EXCEPT !.pc = "s_retry_client", !.err = e]
    /\ cop' = NoOp
    /\ CallOnly

\* One listing request of the loop, with the client obtained before the loop.
\* A failure after a page returns the objects pushed so far; a failure of the
\* first request goes on to the region lookup.
SearchSend(ok, page, e) ==
    /\ call.pc = "send" /\ call.op = "search_objects"
    /\ LET sent == [call EXCEPT !.requests = Append(@, [kind |-> call.op, region |-> call.client])]
       IN  call' = IF ok THEN AfterPage(sent, page)
                   ELSE IF call.calls > 0
                        THEN [sent EXCEPT !.pc = "returned",
                                          !.res = {SearchResult(TRUE, << >>, call.matched)}]
                        ELSE [sent EXCEPT !.pc = "s_retry_client", !.err = e]
    /\ cop' = NoOp
    /\ CallOnly

\* The default client for the lookup.
SearchRetryClient ==
    /\ call.pc = "s_retry_client"
    /\ ClientEffect(call.p, UnwrapOr(ProfileRegion(call.p), DefaultRegion))
    /\ call' = [call EXCEPT !.pc = "s_lookup"]
    /\ UNCHANGED <<object_cache, folder_cache, bucket_regions, pager, tvars>>

\* The region lookup; when it fails the search returns the first error.
SearchLookup(ok, region) ==
    /\ call.pc = "s_lookup"
    /\ LET sent == [call EXCEPT !.requests =
                      Append(@, [kind |-> "lookup",
                                 region |-> UnwrapOr(ProfileRegion(call.p), DefaultRegion)])]
       IN  call' = IF ok THEN [sent EXCEPT !.pc = "s_new_client", !.found = region]
                   ELSE [sent EXCEPT !.pc = "returned",
                                     !.res = {SearchResult(FALSE, <<call.err>>, 0)}]
    /\ cop' = NoOp
    /\ CallOnly

\* set_bucket_region and the client of the region found, under one write
\* lock; the client of the loop stays the one obtained before the loop.
SearchNewClient ==
    /\ call.pc = "s_new_client"
    /\ bucket_regions' = Put(bucket_regions, call.b, call.found)
    /\ ClientEffect(call.p, call.found)
    /\ call' = [call EXCEPT !.pc = "s_retry", !.region = call.found]
    /\ UNCHANGED <<object_cache, folder_cache, pager, tvars>>

\* The retry of the first request with the new client.
SearchRetrySend(ok, page, e) ==
    /\ call.pc = "s_retry"
    /\ LET sent == [call EXCEPT !.requests = Append(@, [kind |-> "retry", region |-> call.found])]
       IN  call' = IF ok THEN AfterPage(sent, page)
                   ELSE [sent EXCEPT !.pc = "returned",
                                     !.res = {SearchResult(FALSE, <<"Search retry failed: ", e>>, 0)}]
    /\ cop' = NoOp
    /\ CallOnly

\* No caller is paging.
NoPager ==
    [ active |-> FALSE, p |-> None, b |-> None, prefix |-> << >>, max_keys |-> {},
      token |-> {}, got |-> << >> ]

\* A caller starts to page through a cached folder: no token yet.
PagerStart(p, b, prefix, max_keys) ==
    /\ pager = NoPager
    /\ <<p, b, prefix>> \in DOMAIN folder_cache
    /\ pager' = [NoPager EXCEPT !.active = TRUE, !.p = p, !.b = b, !.prefix = prefix,
                                !.max_keys = max_keys]
    /\ cop' = NoOp
    /\ UNCHANGED <<object_cache, folder_cache, bucket_regions, clients, builds, call, tvars>>

\* The caller calls list_objects without bypass with the token it holds, the
\* pair has a listing cached, and the caller keeps the page and its next token.
PagerNext ==
    /\ pager.active
    /\ Len(pager.got) < MaxPages
    /\ has_cache(pager.p, pager.b)
    /\ LET res == CachedResult(pager.p, pager.b, pager.prefix, pager.token, pager.max_keys, None)
       IN  pager' = [pager EXCEPT !.got = Append(@, res),
                                  !.token = res.next_continuation_token,
                                  !.active = res.next_continuation_token # {}]
    /\ cop' = NoOp
    /\ UNCHANGED <<object_cache, folder_cache, bucket_regions, clients, builds, call, tvars>>

\* The caller forgets its pages.
PagerEnd ==
    /\ pager.got # << >>
    /\ pager' = NoPager
    /\ cop' = NoOp
    /\ UNCHANGED <<object_cache, folder_cache, bucket_regions, clients, builds, call, tvars>>

CInit ==
    /\ pager = NoPager
    /\ object_cache = << >>
    /\ folder_cache = << >>
    /\ bucket_regions = << >>
    /\ clients = << >>
    /\ builds = 0
    /\ cop = NoOp
    /\ call = NoCall

\* All keys of 1..n characters.
RECURSIVE KeysOfLen(_)
KeysOfLen(n) ==
    IF n = 0 THEN {<< >>}
    ELSE {k \o <<c>> : k \in KeysOfLen(n - 1), c \in Chars}

Keys == UNION {KeysOfLen(n) : n \in 1..MaxKeyLen}

\* All object lists of at most n objects.
RECURSIVE ListsUpTo(_)
ListsUpTo(n) ==
    IF n = 0 THEN {<< >>}
    ELSE ListsUpTo(n - 1) \cup
         {l \o <<S3Object(k)>> : l \in {x \in ListsUpTo(n - 1) : Len(x) = n - 1}, k \in Keys}

\* The listing a/b, a/c/d, e (a file in a folder, one in a nested folder,
\* one at the root).
ExampleObjects ==
    << S3Object(<<"a", "/", "b">>), S3Object(<<"a", "/", "c", "/", "d">>), S3Object(<<"e">>) >>

\* A folder marker two levels deep, alone: a/a/.
NestedMarker == << S3Object(<<"a", "/", "a", "/">>) >>

ObjectLists == ListsUpTo(MaxObjs) \cup {ExampleObjects, NestedMarker}

\* ------------------------------------------------------------------ specification

\* The ids a caller passes: those of the jobs there can be, and one that no job has.
CallIds == 1..(MaxJobs + 1)

Init == TInit /\ CInit

\* The transfer manager: every store operation, the dispatcher loops and the tasks.
Next ==
    \/ SetAppHandle
    \/ AddJob(MaxJobs, JobInputs)
    \/ \E id \in CallIds : CancelJob(id)
    \/ \E id \in CallIds : RemoveJob(id)
    \/ ClearCompleted
    \/ \E id \in CallIds : RetryJob(MaxJobs, id)
    \/ ProcessQueue
    \/ \E d \in 1..MaxDispatchers : DispDequeue(d) \/ DispSpawn(d) \/ DispRegister(d)
    \/ \E id \in 1..MaxJobs : TaskStep(id, MaxBytes)

Spec == Init /\ [][Next]_vars

\* The scheduler under load: more uploads than permits, transfers that do
\* not return, and a user who cancels the first job.  Every behaviour of
\* SpecLimit is a behaviour of the program in such an environment.
LimitInputs == {NewJob("Upload", "b1", None, "k1", "p1", 1)}

LimitCancelIds == {1}

NextLimit ==
    \/ SetAppHandle
    \/ AddJob(LimitJobs, LimitInputs)
    \/ \E id \in LimitCancelIds : CancelJob(id)
    \/ ProcessQueue
    \/ \E d \in 1..MaxDispatchers : DispDequeue(d) \/ DispSpawn(d) \/ DispRegister(d)
    \/ \E id \in 1..LimitJobs : TaskPoll(id) \/ TaskSetInProgress(id) \/ TaskDrop(id)

SpecLimit == Init /\ [][NextLimit]_vars

\* The steps of the task of an upload.
UploadStep(id) ==
    \/ TaskPoll(id)
    \/ TaskSetInProgress(id)
    \/ TaskUploadIO(id, MaxBytes)
    \/ TaskProgress(id)
    \/ TaskCheck(id)
    \/ TaskComplete(id)
    \/ TaskFail(id)
    \/ TaskRemoveHandle(id)
    \/ TaskDrop(id)

\* The transfer manager with uploads only, under fair scheduling: a dispatch
\* pass is started while ids are queued, every dispatcher loop and every
\* spawned task is scheduled again and again, and every transfer returns.
\* Nothing is assumed of the caller's operations.
NextFair ==
    \/ SetAppHandle
    \/ AddJob(MaxJobs, LimitInputs)
    \/ \E id \in 1..MaxJobs : CancelJob(id)
    \/ \E id \in 1..MaxJobs : RemoveJob(id)
    \/ \E id \in 1..MaxJobs : RetryJob(MaxJobs, id)
    \/ ProcessQueue
    \/ \E d \in 1..MaxDispatchers : DispDequeue(d) \/ DispSpawn(d) \/ DispRegister(d)
    \/ \E id \in 1..MaxJobs : UploadStep(id)

Fairness ==
    /\ WF_vars(queue # << >> /\ ProcessQueue)
    /\ \A d \in 1..MaxDispatchers :
          WF_vars(DispDequeue(d) \/ DispSpawn(d) \/ DispRegister(d))
    /\ \A id \in 1..MaxJobs : WF_vars(UploadStep(id))

SpecFair == Init /\ [][NextFair]_vars /\ Fairness

\* Several dispatcher loops on one queue: process_queue is called once per
\* queue_* command, so two loops run whenever a second command comes while
\* the first loop is still alive.
QueueJobs == 3

QueueDispatchers == 2

NextQueue ==
    \/ SetAppHandle
    \/ AddJob(QueueJobs, LimitInputs)
    \/ \E id \in LimitCancelIds : CancelJob(id)
    \/ \E id \in 1..QueueJobs : RetryJob(QueueJobs, id)
    \/ ProcessQueue
    \/ \E d \in 1..QueueDispatchers : DispDequeue(d) \/ DispSpawn(d) \/ DispRegister(d)
    \/ \E id \in 1..QueueJobs : UploadStep(id)

InitQueue == TInitLoops(QueueDispatchers) /\ CInit

SpecQueue == InitQueue /\ [][NextQueue]_vars

\* One job whose file or object can be larger than the size the caller declared.
BytesJobs == 1

WideBytes == 2

BytesInputs ==
    { NewJob("Upload", "b1", None, "k1", "p1", 1),
      NewJob("Download", "b1", None, "k3", "p3", 1),
      NewJob("Download", "b1", None, "k4", "p4", 0) }

NextBytes ==
    \/ SetAppHandle
    \/ AddJob(BytesJobs, BytesInputs)
    \/ \E id \in 1..BytesJobs : CancelJob(id)
    \/ ProcessQueue
    \/ \E d \in 1..MaxDispatchers : DispDequeue(d) \/ DispSpawn(d) \/ DispRegister(d)
    \/ \E id \in 1..BytesJobs : TaskStep(id, WideBytes)

SpecBytes == Init /\ [][NextBytes]_vars

\* The listing cache of one (profile, bucket) pair, populated while it holds
\* no listing.
Profiles == {"p1"}

Buckets == {"b1"}

NextCache ==
    \/ \E p \in Profiles, b \in Buckets, objects \in ObjectLists :
          ~has_cache(p, b) /\ SetCachedObjects(p, b, objects)
    \/ \E p \in Profiles, b \in Buckets : RemoveBucketCache(p, b)
    \/ ClearCache

SpecCache == Init /\ [][NextCache]_vars

\* The listing cache of one pair set again and again, also over a listing it
\* already holds, with lists of plain files (no folder markers).
FileLists == {l \in ListsUpTo(MaxObjs) : \A i \in 1..Len(l) : ~EndsWithSlash(l[i].key)}

NextRebuild ==
    \/ \E p \in Profiles, b \in Buckets, objects \in FileLists : SetCachedObjects(p, b, objects)
    \/ \E p \in Profiles, b \in Buckets : RemoveBucketCache(p, b)
    \/ ClearCache

SpecRebuild == Init /\ [][NextRebuild]_vars

\* A caller pages through a cached folder while the listing stays as it is.
\* The listings: m one-letter files at the root, given in descending order,
\* with or without a file in the folder a/.
Letters == <<"a", "b", "c", "d", "e">>

PageLists ==
    {[i \in 1..m |-> S3Object(<<Letters[m + 1 - i]>>)] \o sub :
        m \in 0..PageObjs, sub \in {<< >>, <<S3Object(<<"a", "/", "a">>)>>}}

PageSizes == {{}} \cup {{n} : n \in 0..MaxPageSize}

NextPage ==
    \/ \E p \in Profiles, b \in Buckets, objects \in PageLists :
          pager = NoPager /\ ~has_cache(p, b) /\ SetCachedObjects(p, b, objects)
    \/ \E p \in Profiles, b \in Buckets : pager = NoPager /\ RemoveBucketCache(p, b)
    \/ \E p \in Profiles, b \in Buckets, prefix \in {<< >>, <<"a", "/">>}, max_keys \in PageSizes :
          PagerStart(p, b, prefix, max_keys)
    \/ PagerNext
    \/ PagerEnd

SpecPage == Init /\ [][NextPage]_vars

\* The client map under its getters and clear_cache, for two profiles.
TwoProfiles == {"p1", "p2"}

NextClients ==
    \/ \E p \in TwoProfiles, region \in Regions : GetClientForRegion(p, region)
    \/ \E p \in TwoProfiles : GetClient(p)
    \/ \E p \in TwoProfiles, b \in Buckets : RemoveBucketCache(p, b)
    \/ ClearCache

SpecClients == Init /\ [][NextClients]_vars

\* Listings of two profiles and two buckets set and evicted in any order.
TwoBuckets == {"b1", "b2"}

EvictLists ==
    {<< >>, <<S3Object(<<"a">>)>>, <<S3Object(<<"a", "/", "a">>)>>}

NextEvict ==
    \/ \E p \in TwoProfiles, b \in TwoBuckets, objects \in EvictLists : SetCachedObjects(p, b, objects)
    \/ \E p \in TwoProfiles, b \in TwoBuckets : RemoveBucketCache(p, b)
    \/ ClearCache

SpecEvict == Init /\ [][NextEvict]_vars

\* list_objects and the object operations of the active profile on one
\* bucket, one command at a time; between commands the listing of the bucket
\* is set, evicted or everything is cleared.
CommandLists == {<<S3Object(<<"a">>)>>, <<S3Object(<<"a", "/", "a">>)>>}

CommandPrefixes == {<< >>, <<"a">>, <<"a", "/">>}

CommandTokens == {{}, {<<"1">>}}

NextCommands ==
    \/ \E p \in Profiles, b \in Buckets, objects \in CommandLists :
          call.pc = "idle" /\ SetCachedObjects(p, b, objects)
    \/ \E p \in Profiles, b \in Buckets : call.pc = "idle" /\ RemoveBucketCache(p, b)
    \/ call.pc = "idle" /\ builds + Cardinality(Regions) <= MaxBuilds /\ ClearCache
    \/ \E p \in Profiles, b \in Buckets, hint \in {None} \cup Regions, prefix \in CommandPrefixes,
          token \in CommandTokens, bypass \in BOOLEAN :
          ListObjectsStart(p, b, hint, prefix, token, {}, bypass)
    \/ \E op \in ObjectOps, p \in Profiles, b \in Buckets, hint \in {None} \cup Regions :
          ObjectOpStart(op, p, b, hint)
    \/ CmdEvict
    \/ CmdReadRegion
    \/ CmdGetClient
    \/ \E ok \in BOOLEAN, output \in NetOutputs, e \in NetErrors : CmdSend(ok, output, e)
    \/ CmdRetryClient
    \/ \E ok \in BOOLEAN, region \in Regions : CmdLookup(ok, region)
    \/ CmdNewClient
    \/ CmdSetRegion
    \/ \E ok \in BOOLEAN, output \in NetOutputs, e \in NetErrors : CmdRetrySend(ok, output, e)
    \/ CmdMap
    \/ CmdHeadClient
    \/ \E ok \in BOOLEAN : CmdHead(ok)
    \/ CallDone

SpecCommands == Init /\ [][NextCommands]_vars

\* list_objects misses of two profiles, one with a region of its own, on one
\* bucket at the root prefix.
NextRegion ==
    \/ \E p \in TwoProfiles, b \in Buckets, hint \in {None} \cup Regions, bypass \in BOOLEAN :
          ListObjectsStart(p, b, hint, << >>, {}, {}, bypass)
    \/ CmdEvict
    \/ CmdReadRegion
    \/ CmdGetClient
    \/ \E ok \in BOOLEAN, output \in NetOutputs, e \in NetErrors : CmdSend(ok, output, e)
    \/ CmdRetryClient
    \/ \E ok \in BOOLEAN, region \in Regions : CmdLookup(ok, region)
    \/ CmdNewClient
    \/ CmdSetRegion
    \/ \E ok \in BOOLEAN, output \in NetOutputs, e \in NetErrors : CmdRetrySend(ok, output, e)
    \/ CmdMap
    \/ CallDone

SpecRegion == Init /\ [][NextRegion]_vars

\* search_objects of the active profile on one bucket, one command at a
\* time. A page of the listing is the number of its keys that match the
\* query, none or MaxPageMatches, and whether the listing is truncated.
SearchPages == [matches : {0, MaxPageMatches}, truncated : BOOLEAN]

NextSearch ==
    \/ \E p \in Profiles, b \in Buckets, objects \in CommandLists :
          call.pc = "idle" /\ SetCachedObjects(p, b, objects)
    \/ \E p \in Profiles, b \in Buckets : call.pc = "idle" /\ RemoveBucketCache(p, b)
    \/ \E p \in Profiles, b \in Buckets, hint \in {None} \cup Regions, prefix \in {<< >>, <<"a", "/">>},
          query \in {<<"a">>, <<"A">>} :
          SearchStart(p, b, hint, prefix, query)
    \/ CmdReadRegion
    \/ CmdGetClient
    \/ \E ok \in BOOLEAN, page \in SearchPages, e \in NetErrors : SearchSend(ok, page, e)
    \/ SearchRetryClient
    \/ \E ok \in BOOLEAN, region \in Regions : SearchLookup(ok, region)
    \/ SearchNewClient
    \/ \E ok \in BOOLEAN, page \in SearchPages, e \in NetErrors : SearchRetrySend(ok, page, e)
    \/ CallDone

SpecSearch == Init /\ [][NextSearch]_vars

\* The commands that send requests, one at a time, of two profiles on one
\* bucket, with the lock they hold while they send.
NextLocks ==
    \/ \E p \in TwoProfiles, b \in Buckets, hint \in {None} \cup Regions, bypass \in BOOLEAN :
          ListObjectsStart(p, b, hint, << >>, {}, {}, bypass)
    \/ \E op \in ObjectOps, p \in TwoProfiles, b \in Buckets, hint \in {None} \cup Regions :
          ObjectOpStart(op, p, b, hint)
    \/ \E p \in TwoProfiles : ListBucketsStart(p)
    \/ CmdEvict
    \/ CmdReadRegion
    \/ CmdGetClient
    \/ \E ok \in BOOLEAN, output \in NetOutputs, e \in NetErrors : CmdSend(ok, output, e)
    \/ CmdRetryClient
    \/ \E ok \in BOOLEAN, region \in Regions : CmdLookup(ok, region)
    \/ CmdNewClient
    \/ CmdSetRegion
    \/ \E ok \in BOOLEAN, output \in NetOutputs, e \in NetErrors : CmdRetrySend(ok, output, e)
    \/ CmdMap
    \/ CallDone

SpecLocks == Init /\ [][NextLocks]_vars

\* A caller who cancels a job only while its id waits in the queue, so that
\* every cancel comes before the dequeue of the id.
NextQueuedCancel ==
    \/ SetAppHandle
    \/ AddJob(MaxJobs, LimitInputs)
    \/ \E id \in 1..MaxJobs : (\E i \in 1..Len(queue) : queue[i] = id) /\ CancelJob(id)
    \/ ProcessQueue
    \/ \E d \in 1..MaxDispatchers : DispDequeue(d) \/ DispSpawn(d) \/ DispRegister(d)
    \/ \E id \in 1..MaxJobs :
          \/ TaskPoll(id)
          \/ TaskSetInProgress(id)
          \/ TaskUploadIO(id, MaxBytes)
          \/ TaskProgress(id)
          \/ TaskCheck(id)
          \/ TaskComplete(id)
          \/ TaskFail(id)
          \/ TaskRemoveHandle(id)

SpecQueuedCancel == Init /\ [][NextQueuedCancel]_vars

\* list_objects answered from the listing cache, for tokens and page sizes
\* of any kind: no token, offsets inside and past the folder, a token that
\* is no number; no max_keys, zero, positive and negative ones.
AnyTokens == {{}, {<<"0">>}, {<<"1">>}, {<<"3">>}, {<<"1", "2">>}, {<<"x">>}}

AnyMaxKeys == {{}, {0}, {1}, {2}, {0 - 1}, {0 - 2}}

NextTokens ==
    \/ \E p \in Profiles, b \in Buckets, objects \in ListsUpTo(MaxObjs) :
          call.pc = "idle" /\ ~has_cache(p, b) /\ SetCachedObjects(p, b, objects)
    \/ \E p \in Profiles, b \in Buckets : call.pc = "idle" /\ RemoveBucketCache(p, b)
    \/ \E p \in Profiles, b \in Buckets, prefix \in {<< >>, <<"a", "/">>},
          token \in AnyTokens, max_keys \in AnyMaxKeys :
          has_cache(p, b) /\ ListObjectsStart(p, b, None, prefix, token, max_keys, FALSE)
    \/ CallDone

SpecTokens == Init /\ [][NextTokens]_vars

\* ------------------------------------------------------------------ properties: transfer manager

InProgressJobs == {i \in DOMAIN jobs : jobs[i].status = "InProgress"}

\* C1: at no time are more jobs InProgress than the semaphore has permits.
C1_AtMostPermitsInProgress == Cardinality(InProgressJobs) <= Permits

\* C2: a job for which cancel_job returned true while it was InProgress is
\* Cancelled from then on, as long as its record exists.
C2_CancelledRunningStaysCancelled ==
    \A id \in cancelled_running : id \in DOMAIN jobs => jobs[id].status = "Cancelled"

AllowedTransitions ==
    { <<"Pending", "InProgress">>, <<"Pending", "Cancelled">>,
      <<"InProgress", "Completed">>, <<"InProgress", "Failed">>,
      <<"InProgress", "Cancelled">> }

\* C3: every change of a stored job's status is one of the transitions of the
\* state machine Pending -> InProgress -> {Completed, Failed, Cancelled},
\* Pending -> Cancelled.
C3_StatusTransitions ==
    [][ \A id \in DOMAIN jobs \cap DOMAIN jobs' :
            jobs[id].status # jobs'[id].status
            => <<jobs[id].status, jobs'[id].status>> \in AllowedTransitions ]_vars

\* C4: cancel_job returns true exactly when the job exists and is Pending or
\* InProgress; when it returns false, the job table, the queue and the
\* abort-handle map are unchanged and no event is emitted.
C4_CancelOnlyPendingOrInProgress ==
    [][ ret'.op = "cancel_job"
        => LET id == ret'.id
               accepted == id \in DOMAIN jobs /\ jobs[id].status \in {"Pending", "InProgress"}
           IN  /\ ret'.val = accepted
               /\ ~accepted => /\ jobs' = jobs
                               /\ queue' = queue
                               /\ abort_handles' = abort_handles
                               /\ emitted' = << >> ]_vars

\* A cancel of a Completed job has just returned false.
C4_Witness ==
    /\ ret.op = "cancel_job"
    /\ ret.val = FALSE
    /\ ret.id \in DOMAIN jobs
    /\ jobs[ret.id].status = "Completed"

Occurrences(seq, x) == Cardinality({i \in 1..Len(seq) : seq[i] = x})

\* C5: retry_job on a Failed or Cancelled job adds exactly one job, under an
\* id no stored job has, Pending, with no progress and with the transfer type,
\* bucket, region, key, path, size and group metadata of the source; the id is
\* enqueued once and returned.  On any other job or an unknown id it returns
\* None and adds nothing.
C5_RetryCreatesCopy ==
    [][ ret'.op = "retry_job"
        => LET id == ret'.id
           IN  IF id \in DOMAIN jobs /\ jobs[id].status \in {"Failed", "Cancelled"}
               THEN \E new \in ret'.val :
                    /\ ret'.val = {new}
                    /\ new \notin DOMAIN jobs
                    /\ DOMAIN jobs' = DOMAIN jobs \cup {new}
                    /\ jobs'[new].status = "Pending"
                    /\ jobs'[new].processed_bytes = 0
                    /\ \A f \in {"transfer_type", "bucket", "bucket_region", "key",
                                 "local_path", "total_bytes", "parent_group_id",
                                 "group_name", "is_group_root"} :
                           jobs'[new][f] = jobs[id][f]
                    /\ Occurrences(queue, new) = 0
                    /\ queue' = Append(queue, new)
               ELSE /\ ret'.val = {}
                    /\ jobs' = jobs
                    /\ queue' = queue ]_vars

\* A retry of a job that belongs to a group has just returned the new id.
C5_Witness ==
    /\ ret.op = "retry_job"
    /\ ret.val # {}
    /\ ret.id \in DOMAIN jobs
    /\ jobs[ret.id].parent_group_id # None
    /\ \A new \in ret.val : Occurrences(queue, new) = 1

\* C6: retry_job leaves the record it is called on as it was, whatever it returns.
C6_RetryLeavesSource ==
    [][ (ret'.op = "retry_job" /\ ret'.id \in DOMAIN jobs)
        => (ret'.id \in DOMAIN jobs' /\ jobs'[ret'.id] = jobs[ret'.id]) ]_vars

\* A retry of a Failed job that had made progress has just created a job; the
\* source still shows the failure and the bytes.
C6_Witness ==
    /\ ret.op = "retry_job"
    /\ ret.val # {}
    /\ ret.id \in DOMAIN jobs
    /\ jobs[ret.id].status = "Failed"
    /\ jobs[ret.id].processed_bytes > 0

\* C7: a job whose total_bytes is nonzero never has more processed bytes than that.
C7_ProcessedWithinTotal ==
    \A id \in DOMAIN jobs :
        jobs[id].total_bytes # 0 => jobs[id].processed_bytes <= jobs[id].total_bytes

\* ------------------------------------------------------------------ properties: listing cache

Range(seq) == {seq[i] : i \in 1..Len(seq)}

SlashesBeforeEnd(s) == {j \in 1..(Len(s) - 1) : s[j] = "/"}

Largest(S) == CHOOSE x \in S : \A y \in S : y <= x

\* The folder prefixes that are proper ancestors of a key.
ProperAncestors(key) == {SubSeq(key, 1, j) : j \in SlashesBeforeEnd(key)}

\* The folder a folder path (or a marker key) lies in.
FolderParent(path) ==
    IF SlashesBeforeEnd(path) = {} THEN << >>
    ELSE SubSeq(path, 1, Largest(SlashesBeforeEnd(path)))

\* The folder a file key lies in.
FileParent(key) ==
    IF {j \in 1..Len(key) : key[j] = "/"} = {} THEN << >>
    ELSE SubSeq(key, 1, Largest({j \in 1..Len(key) : key[j] = "/"}))

AncestorFolders(objects) == UNION {ProperAncestors(objects[i].key) : i \in 1..Len(objects)}

ChildFolders(objects, folder) == {g \in AncestorFolders(objects) : FolderParent(g) = folder}

EntriesOf(pb) == {k \in DOMAIN folder_cache : k[1] = pb[1] /\ k[2] = pb[2]}

\* C8: after set_cached_objects on an empty cache every proper ancestor folder
\* of a key has an entry, and the common_prefixes of every entry are exactly
\* the immediate child folders of that folder, each once, ascending.
C8_AncestorsHaveEntries ==
    \A pb \in DOMAIN object_cache :
        LET objects == object_cache[pb]
        IN  /\ \A f \in AncestorFolders(objects) : <<pb[1], pb[2], f>> \in DOMAIN folder_cache
            /\ \A k \in EntriesOf(pb) :
                  LET cp == folder_cache[k].common_prefixes
                  IN  /\ Range(cp) = ChildFolders(objects, k[3])
                      /\ \A i \in 1..(Len(cp) - 1) : StrLess(cp[i], cp[i + 1])

\* C9: a folder marker (a key ending in '/') is in no objects list, and its
\* own path is in the common_prefixes of the folder it lies in.
C9_MarkersListedInParent ==
    \A pb \in DOMAIN object_cache :
        \A i \in 1..Len(object_cache[pb]) :
            LET key == object_cache[pb][i].key
                parent == <<pb[1], pb[2], FolderParent(key)>>
            IN  EndsWithSlash(key)
                => /\ \A k \in EntriesOf(pb) :
                         \A j \in 1..Len(folder_cache[k].objects) :
                             folder_cache[k].objects[j].key # key
                   /\ parent \in DOMAIN folder_cache
                   /\ key \in Range(folder_cache[parent].common_prefixes)

\* What the cache holds for the listing a/b, a/c/d, e.
ExampleFolders(p, b) ==
    [ k \in { <<p, b, << >> >>, <<p, b, <<"a", "/">> >>, <<p, b, <<"a", "/", "c", "/">> >> } |->
        IF k[3] = << >>
        THEN [objects |-> <<S3Object(<<"e">>)>>, common_prefixes |-> << <<"a", "/">> >>]
        ELSE IF k[3] = <<"a", "/">>
        THEN [objects |-> <<S3Object(<<"a", "/", "b">>)>>,
              common_prefixes |-> << <<"a", "/", "c", "/">> >>]
        ELSE [objects |-> <<S3Object(<<"a", "/", "c", "/", "d">>)>>, common_prefixes |-> << >>] ]

\* C10: after set_cached_objects every object that is no folder marker is in
\* the objects list of the entry of the folder it lies in, as often as in the
\* input, and in no other entry; every objects list is ascending by key; the
\* listing a/b, a/c/d, e gives root [e], a/ [a/b] and a/c/ [a/c/d].
C10_ObjectsInParentSorted ==
    \A pb \in DOMAIN object_cache :
        LET objects == object_cache[pb]
        IN  /\ \A i \in 1..Len(objects) :
                  ~EndsWithSlash(objects[i].key)
                  => /\ <<pb[1], pb[2], FileParent(objects[i].key)>> \in DOMAIN folder_cache
                     /\ \A k \in EntriesOf(pb) :
                           Occurrences(folder_cache[k].objects, objects[i]) =
                               IF k[3] = FileParent(objects[i].key)
                               THEN Occurrences(objects, objects[i]) ELSE 0
            /\ \A k \in EntriesOf(pb) :
                  LET os == folder_cache[k].objects
                  IN  \A i \in 1..(Len(os) - 1) : ~StrLess(os[i + 1].key, os[i].key)
            /\ objects = ExampleObjects
               => [k \in EntriesOf(pb) |-> folder_cache[k]] = ExampleFolders(pb[1], pb[2])

\* Two files of one folder were given in descending order of their keys.
C10_Witness ==
    \E pb \in DOMAIN object_cache :
        LET objects == object_cache[pb]
        IN  /\ Len(objects) = 2
            /\ ~EndsWithSlash(objects[1].key)
            /\ ~EndsWithSlash(objects[2].key)
            /\ FileParent(objects[1].key) = FileParent(objects[2].key)
            /\ StrLess(objects[2].key, objects[1].key)
            /\ Len(folder_cache[<<pb[1], pb[2], FileParent(objects[1].key)>>].objects) = 2

\* C11: after set_cached_objects the folder prefixes that have an entry for
\* the pair are exactly the root and the ancestor folders of the keys last
\* given, and every entry holds exactly the files and child folders that
\* those keys give it, whatever was cached for the pair before.
C11_TreeRebuiltFromLastList ==
    \A pb \in DOMAIN object_cache :
        LET objects == object_cache[pb]
        IN  /\ {k[3] : k \in EntriesOf(pb)} = {<< >>} \cup AncestorFolders(objects)
            /\ \A k \in EntriesOf(pb) :
                  /\ Range(folder_cache[k].objects) =
                        {o \in Range(objects) : ~EndsWithSlash(o.key) /\ FileParent(o.key) = k[3]}
                  /\ Range(folder_cache[k].common_prefixes) = ChildFolders(objects, k[3])


\* The folder entry a caller is paging through, its number of objects M and
\* the page size N.
PagedContent == folder_cache[<<pager.p, pager.b, pager.prefix>>]

PagedM == Len(PagedContent.objects)

PagedN == UnwrapOr(pager.max_keys, DefaultMaxKeys)

Ceil(m, n) == (m + n - 1) \div n

RECURSIVE Concat(_)
Concat(pages) ==
    IF pages = << >> THEN << >> ELSE pages[1].objects \o Concat(Tail(pages))

\* The caller got its last page, after count pages: every page but the last
\* has N objects and the last at most N, the pages concatenate to the
\* folder's objects list, a page is truncated exactly when it has a next
\* token, which is its end offset, and only the first page has the prefixes.
PagedInPages(count) ==
    LET got == pager.got
    IN  /\ Len(got) = count
        /\ \A i \in 1..Len(got) :
              /\ got[i].ok
              /\ Len(got[i].objects) = IF i < Len(got) THEN PagedN ELSE PagedM - (i - 1) * PagedN
              /\ Len(got[i].objects) <= PagedN
              /\ got[i].is_truncated <=> got[i].next_continuation_token # {}
              /\ got[i].next_continuation_token =
                    IF i * PagedN < PagedM THEN {UsizeToString(i * PagedN)} ELSE {}
              /\ got[i].common_prefixes =
                    IF i = 1 THEN PagedContent.common_prefixes ELSE << >>
        /\ Concat(got) = PagedContent.objects

PagingDone == pager.got # << >> /\ ~pager.active /\ PagedN >= 1

\* C12 as stated: paging a cached folder of M objects with page size N >= 1
\* takes exactly ceil(M/N) pages.
C12_CeilPages == PagingDone => PagedInPages(Ceil(PagedM, PagedN))

\* C12 (amended): paging a cached folder of M objects with page size N >= 1
\* from no token takes max(1, ceil(M/N)) pages (a folder without objects is
\* one empty page): each page has N objects except possibly the last, the
\* pages concatenate to the folder's sorted objects list, is_truncated holds
\* exactly when a next token (the end offset) is returned, and only the page
\* at offset 0 has common_prefixes.
C12_PagesCoverFolder ==
    PagingDone => PagedInPages(IF PagedM = 0 THEN 1 ELSE Ceil(PagedM, PagedN))

\* Paging ended after several pages, the last shorter than the others, in a
\* folder that has a sub-folder.
C12_Witness ==
    /\ PagingDone
    /\ Len(pager.got) >= 2
    /\ Len(pager.got[Len(pager.got)].objects) < PagedN
    /\ PagedContent.common_prefixes # << >>


\* C13: the client map holds one client per (profile id, region);
\* get_client_for_region builds a client only when the key is absent and then
\* stores it, returns the stored client without building when the key is
\* present, and only clear_cache removes or replaces a stored client: two
\* calls for one key with no clear_cache between them build once and return
\* the same client.
C13_BuildOncePerKey ==
    [][ /\ \A key \in DOMAIN clients :
             cop'.op # "clear_cache" => key \in DOMAIN clients' /\ clients'[key] = clients[key]
        /\ cop'.op = "get_client_for_region" =>
             LET key == <<cop'.p, cop'.arg>>
             IN  /\ key \in DOMAIN clients' /\ cop'.val = clients'[key]
                 /\ DOMAIN clients' = DOMAIN clients \cup {key}
                 /\ builds' = IF key \in DOMAIN clients THEN builds ELSE builds + 1
        /\ cop'.op # "get_client_for_region" => builds' = builds ]_vars

\* A second call for a key returned the client built for it earlier, after
\* another client was built in between.
C13_Witness ==
    /\ cop.op = "get_client_for_region"
    /\ <<cop.p, cop.arg>> \in DOMAIN clients
    /\ cop.val = clients[<<cop.p, cop.arg>>]
    /\ cop.val < builds


\* C14: after remove_bucket_cache(p, b) the pair (p, b) has no listing and no
\* folder entry, and for every other pair (the same bucket under another
\* profile, another bucket under the same profile) has_cache, the object list
\* and the folder entries are what they were before the call.
C14_EvictsOnlyThePair ==
    [][ cop'.op = "remove_bucket_cache" =>
          LET p == cop'.p
              b == cop'.arg
          IN  /\ <<p, b>> \notin DOMAIN object_cache'
              /\ \A k \in DOMAIN folder_cache' : ~(k[1] = p /\ k[2] = b)
              /\ \A pb \in (TwoProfiles \X TwoBuckets) \ {<<p, b>>} :
                    /\ pb \in DOMAIN object_cache' <=> pb \in DOMAIN object_cache
                    /\ pb \in DOMAIN object_cache => object_cache'[pb] = object_cache[pb]
                    /\ \A prefix \in {k[3] : k \in DOMAIN folder_cache \cup DOMAIN folder_cache'} :
                          LET k == <<pb[1], pb[2], prefix>>
                          IN  /\ k \in DOMAIN folder_cache' <=> k \in DOMAIN folder_cache
                              /\ k \in DOMAIN folder_cache => folder_cache'[k] = folder_cache[k] ]_vars

\* remove_bucket_cache(p, b) has run while the same bucket under the other
\* profile and the other bucket under the same profile have listings with a
\* sub-folder entry.
C14_Witness ==
    /\ cop.op = "remove_bucket_cache"
    /\ ~has_cache(cop.p, cop.arg)
    /\ \E p \in TwoProfiles \ {cop.p}, b \in TwoBuckets \ {cop.arg} :
          /\ <<p, cop.arg, <<"a", "/">>>> \in DOMAIN folder_cache
          /\ <<cop.p, b, <<"a", "/">>>> \in DOMAIN folder_cache


\* A list_objects call whose first request failed, whose region lookup found
\* a region and whose retry succeeded has returned: the result is a success
\* with the region found as bucket_region, and the bucket-region cache holds
\* that region for the bucket.
DiscoveryReturned ==
    (call.pc = "returned" /\ call.op = "list_objects" /\ call.found # None
        /\ \E r \in call.res : r.ok)
    => /\ \A r \in call.res : r.bucket_region = call.found
       /\ call.b \in DOMAIN bucket_regions /\ bucket_regions[call.b] = call.found

Lookups(requests) == {i \in 1..Len(requests) : requests[i].kind = "lookup"}

\* C15 as stated: after such a call, any list_objects that follows for the
\* same bucket sends its request with the cached region and issues no region
\* lookup.
C15_AnyFollowingCallUsesRegion ==
    /\ DiscoveryReturned
    /\ (call.op = "list_objects" /\ call.prev # None) =>
          /\ Lookups(call.requests) = {}
          /\ call.requests # << >> => call.requests[1].region = call.prev

\* C15 (amended): a list_objects miss whose first listing fails, whose region
\* lookup succeeds and whose retry succeeds returns success with the region
\* found as bucket_region and leaves it in the bucket-region cache; a
\* list_objects that follows for the same bucket without bypass_cache sends
\* its listing request with the cached region, whatever region argument it
\* was given, and issues a region lookup only after that request has failed.
C15_FollowingCallUsesRegion ==
    /\ DiscoveryReturned
    /\ (call.op = "list_objects" /\ call.prev # None /\ ~call.bypass) =>
          /\ call.requests # << >> => call.requests[1].region = call.prev
          /\ Lookups(call.requests) # {} => call.err # None /\ call.requests[1].kind = "list_objects"

\* A call that follows a discovery, given another region as argument, has
\* returned a listing after one request, sent with the cached region.
C15_Witness ==
    /\ call.pc = "returned" /\ call.op = "list_objects"
    /\ call.prev # None /\ ~call.bypass
    /\ call.hint # None /\ call.hint # call.prev
    /\ Len(call.requests) = 1 /\ call.requests[1].region = call.prev
    /\ \E r \in call.res : r.ok


\* C16: a list_objects call whose first request failed and that returns an
\* error (the region lookup failed, or the one retry failed) returns the error
\* of the first request, and it has made at most one lookup and one retry.
C16_ReturnsFirstError ==
    (call.pc = "returned" /\ call.op = "list_objects" /\ call.err # None) =>
        /\ \A r \in call.res : ~r.ok => r.err = <<call.err>>
        /\ Cardinality(Lookups(call.requests)) <= 1
        /\ Cardinality({i \in 1..Len(call.requests) : call.requests[i].kind = "retry"}) <= 1

\* C17: every command that takes a bucket and a region (list_objects,
\* put_object, get_object, delete_object, copy_object) answers a failed first
\* request with the region lookup before it returns.
C17_EveryCommandLooksUpRegion ==
    (call.pc = "returned" /\ call.op \in ObjectOps \cup {"list_objects"} /\ call.err # None) =>
        Lookups(call.requests) # {}

\* C18: a list_objects call that missed the cache and returns the listing it
\* got from the network has put the listing into the cache: has_cache holds
\* for its pair.
C18_MissPopulatesCache ==
    (call.pc = "returned" /\ call.op = "list_objects" /\ ~call.hit
        /\ \E r \in call.res : r.ok)
    => has_cache(call.p, call.b)

\* C19: a list_objects call without bypass for a pair that has a listing
\* returns at once, sends no request, builds no client, and leaves the client
\* map, the bucket-region cache, the object cache and the folder cache as
\* they are.
C19_CachedCallTouchesNothing ==
    [][ ( /\ call.pc \in {"idle", "returned"}
          /\ call' # call /\ call'.pc # "idle" /\ call'.op = "list_objects"
          /\ ~call'.bypass /\ has_cache(call'.p, call'.b) )
        => /\ call'.pc = "returned" /\ call'.res # {}
           /\ call'.requests = << >>
           /\ UNCHANGED <<clients, builds, bucket_regions, object_cache, folder_cache>> ]_vars

\* A call was answered from the cache before any client was built.
C19_Witness ==
    /\ call.pc = "returned" /\ call.op = "list_objects" /\ call.hit
    /\ call.requests = << >>
    /\ \E r \in call.res : r.ok /\ r.objects # << >>
    /\ clients = << >> /\ builds = 0

\* C20: for a cached pair and a prefix with no folder entry, list_objects
\* returns the one cached object whose key is the prefix, with no common
\* prefixes and not truncated, and when there is no such object an empty page
\* that is not truncated; it never returns an error.
C20_PrefixWithoutFolderEntry ==
    (call.pc = "returned" /\ call.hit
        /\ <<call.p, call.b, call.prefix>> \notin DOMAIN folder_cache)
    => \A r \in call.res :
          LET same == {o \in Range(object_cache[<<call.p, call.b>>]) : o.key = call.prefix}
          IN  /\ r.ok
              /\ r.common_prefixes = << >>
              /\ ~r.is_truncated /\ r.next_continuation_token = {}
              /\ IF same # {}
                 THEN Len(r.objects) = 1 /\ r.objects[1] \in same
                 ELSE r.objects = << >>

\* The call returned the object whose key is the prefix.
C20_Witness ==
    /\ call.pc = "returned" /\ call.hit
    /\ <<call.p, call.b, call.prefix>> \notin DOMAIN folder_cache
    /\ \E r \in call.res : r.ok /\ Len(r.objects) = 1 /\ r.objects[1].key = call.prefix


\* C21: on a cache miss the client of the first request is obtained for the
\* region cached for the bucket when there is one, else for the caller's
\* region hint, else for the profile's region, which is us-east-1 when the
\* profile names none; a cached region wins over a differing hint.
C21_RegionPrecedence ==
    [][ (call.op = "list_objects" /\ call.pc = "client" /\ call'.pc = "send") =>
          LET region == IF call.b \in DOMAIN bucket_regions THEN bucket_regions[call.b]
                        ELSE IF call.hint # None THEN call.hint
                        ELSE IF ProfileRegion(call.p) # {}
                             THEN CHOOSE r \in ProfileRegion(call.p) : TRUE
                             ELSE "us-east-1"
          IN  /\ call'.client = region
              /\ cop' = [op |-> "get_client_for_region", p |-> call.p, arg |-> region,
                         val |-> clients'[<<call.p, region>>]] ]_vars

\* A request is about to go out with the cached region of the bucket although
\* the caller gave another region.
C21_Witness ==
    /\ call.op = "list_objects" /\ call.pc = "send"
    /\ call.b \in DOMAIN bucket_regions /\ call.client = bucket_regions[call.b]
    /\ call.hint # None /\ call.hint # call.client


\* The listing requests of a search, not counting the retry.
SearchListings(requests) == {i \in 1..Len(requests) : requests[i].kind = "search_objects"}

C23_PartialResultsOnFailure ==
    [][ (call'.op = "search_objects" /\ ~call'.hit) =>
          /\ (call.pc = "send" /\ call.calls > 0 /\ call'.calls = call.calls) =>
                /\ call'.pc = "returned"
                /\ call'.res = {SearchResult(TRUE, << >>, call.matched)}
          /\ \A r \in call'.res : ~r.ok =>
                /\ call'.calls = 0 /\ call'.err # None
                /\ call'.requests[1].kind = "search_objects"
                /\ call'.requests[Len(call'.requests)].kind \in {"lookup", "retry"}
          /\ \A i \in 1..Len(call'.requests) :
                /\ call'.requests[i].kind = "lookup" => i = 2
                /\ call'.requests[i].kind = "retry" => i = 3 ]_vars

\* A search returned success with matches after a request failed in the
\* middle of the scan: one request more than pages counted, and no lookup.
C23_Witness ==
    /\ call.op = "search_objects" /\ call.pc = "returned" /\ ~call.hit
    /\ call.calls >= 2 /\ Len(call.requests) = call.calls + 1
    /\ Lookups(call.requests) = {}
    /\ call.res = {SearchResult(TRUE, << >>, call.matched)} /\ call.matched > 0


\* C24: when execute_job returns an error the job, if it is still stored,
\* becomes Failed; the step changes no other job's record, removes no queued
\* id, leaves every dispatcher loop and every other task as they are, and the
\* failed task goes on to give back its handle and its permit.
C24_FailureIsLocal ==
    [][ \A id \in Ids :
          (tasks[id].pc = "fail" /\ tasks'[id].pc # "fail" /\ ~tasks[id].aborted) =>
              /\ id \in DOMAIN jobs => jobs'[id].status = "Failed"
              /\ DOMAIN jobs' = DOMAIN jobs
              /\ \A j \in DOMAIN jobs \ {id} : jobs'[j] = jobs[j]
              /\ UNCHANGED <<queue, disp, permits>>
              /\ \A j \in Ids \ {id} : tasks'[j] = tasks[j]
              /\ tasks'[id].pc = "rm_handle" ]_vars

\* A job has just failed while another id waits in the queue.
C24_Witness ==
    \E id \in DOMAIN jobs :
        /\ tasks[id].pc = "rm_handle" /\ jobs[id].status = "Failed"
        /\ queue # << >>


\* The tasks that are spawned and have not ended or been dropped.
LiveTasks == {id \in Ids : tasks[id].pc # "none"}

\* No dispatcher loop holds an id it took from the queue.
NoDequeuedId == \A d \in DOMAIN disp : disp[d].pc \in {"idle", "dequeue"}

\* C25: every permit taken is the permit of a live task, so whenever no task
\* is live and no dispatcher loop holds a dequeued id all 5 permits are
\* available.
C25_PermitsReturned ==
    /\ permits = Permits - Cardinality(LiveTasks)
    /\ (LiveTasks = {} /\ NoDequeuedId) => permits = Permits

\* A job was cancelled after its task was spawned and before the task set it
\* InProgress, the task was dropped, and nothing runs or waits any more.
C25_Witness ==
    /\ LiveTasks = {} /\ NoDequeuedId /\ queue = << >>
    /\ permits = Permits
    /\ \E id \in DOMAIN jobs : jobs[id].status = "Cancelled" /\ id \notin cancelled_running


\* Every dispatcher loop has left its loop.
AllDispatchersExited == \A d \in DOMAIN disp : disp[d].pc = "idle"

\* C26: once the queue is empty, every dispatcher loop has exited and no task
\* is live, the abort-handle map is empty.
C26_NoHandleLeft ==
    (queue = << >> /\ AllDispatchersExited /\ LiveTasks = {}) => abort_handles = {}


\* The job with this id was added and is removed or has a terminal status.
Finished(id) ==
    /\ nextId >= id
    /\ id \in DOMAIN jobs => jobs[id].status \in {"Completed", "Failed", "Cancelled"}

Holding(d) == disp[d].pc \in {"acquire", "register"}

\* This step is the dequeue of the head of the queue by one dispatcher loop.
DequeueStep ==
    /\ queue # << >>
    /\ queue' = Tail(queue)
    /\ \E d \in DOMAIN disp :
          /\ disp[d].pc = "dequeue"
          /\ disp' = [disp EXCEPT ![d] = [pc |-> "acquire", id |-> Head(queue)]]

\* C28: ids leave the queue in the order add_job enqueued them.  Ids are
\* numbered in the order of their add_job, so: the queue only changes by the
\* push of the next id at its end or by a dispatcher loop taking its head,
\* the queue is in ascending order, and an id that leaves is smaller than
\* every id still queued and larger than every id a loop holds.
C28_FifoOrder ==
    [][ queue' # queue =>
          /\ \/ queue' = Append(queue, nextId + 1) /\ nextId' = nextId + 1
             \/ DequeueStep
          /\ \A i, j \in 1..Len(queue') : i < j => queue'[i] < queue'[j]
          /\ DequeueStep =>
                /\ \A i \in 1..Len(queue') : Head(queue) < queue'[i]
                /\ \A d \in DOMAIN disp : Holding(d) => disp[d].id < Head(queue) ]_vars

\* Two dispatcher loops hold ids at once, taken in queue order, and a third
\* id waits.
C28_Witness ==
    /\ Cardinality(DOMAIN disp) >= 2
    /\ \A d \in DOMAIN disp : Holding(d)
    /\ queue # << >>


\* This step spawns the task of the id that dispatcher loop d holds.
SpawnStep(d) == disp[d].pc = "acquire" /\ disp'[d].pc = "register"

\* C29: an id is pushed once, when its job is created, and is a fresh id;
\* the queue never holds an id twice; an id that a dispatcher loop took is in
\* the queue no more and is held by no other loop; and a task is spawned only
\* for an id that has no task and that no other loop holds.
C29_OneDequeueOneTask ==
    [][ /\ \A i, j \in 1..Len(queue') : i # j => queue'[i] # queue'[j]
        /\ Len(queue') > Len(queue) =>
              /\ queue' = Append(queue, nextId')
              /\ nextId' = nextId + 1
              /\ nextId' \notin DOMAIN jobs
              /\ \A d \in DOMAIN disp : disp[d].id # nextId'
              /\ tasks[nextId'].pc = "none"
        /\ \A d \in DOMAIN disp : Holding(d)' =>
              /\ \A i \in 1..Len(queue') : queue'[i] # disp'[d].id
              /\ \A e \in DOMAIN disp \ {d} : Holding(e)' => disp'[e].id # disp'[d].id
        /\ \A d \in DOMAIN disp : SpawnStep(d) =>
              /\ tasks[disp[d].id].pc = "none"
              /\ tasks'[disp[d].id].pc = "start"
              /\ \A id \in Ids \ {disp[d].id} : tasks'[id] = tasks[id] ]_vars

\* Two dispatcher loops have spawned tasks for two different ids and both
\* tasks are live, while a third id waits in the queue.
C29_Witness ==
    /\ Cardinality(DOMAIN disp) >= 2
    /\ \E d, e \in DOMAIN disp :
          /\ disp[d].pc = "register" /\ disp[e].pc = "register"
          /\ disp[d].id # disp[e].id
          /\ tasks[disp[d].id].pc # "none" /\ tasks[disp[e].id].pc # "none"
    /\ queue # << >>


\* The stored jobs that are Completed, Failed or Cancelled.
TerminalJobs == {i \in DOMAIN jobs : jobs[i].status \in {"Completed", "Failed", "Cancelled"}}

\* C30: clear_completed removes exactly the Completed, Failed and Cancelled
\* jobs and returns how many they were; every Pending and InProgress job stays
\* as it is, and the queue, the tasks, the abort handles, the dispatcher
\* loops and the permits are unchanged.
C30_ClearRemovesTerminal ==
    [][ ret'.op = "clear_completed" =>
          /\ DOMAIN jobs' = DOMAIN jobs \ TerminalJobs
          /\ \A i \in DOMAIN jobs :
                jobs[i].status \in {"Pending", "InProgress"} => i \in DOMAIN jobs'
          /\ \A i \in DOMAIN jobs' : jobs'[i] = jobs[i]
          /\ ret'.val = Cardinality(TerminalJobs)
          /\ UNCHANGED <<queue, tasks, abort_handles, disp, permits>> ]_vars

\* clear_completed removed a job while another job is InProgress with its
\* task running.
C30_Witness ==
    /\ ret.op = "clear_completed" /\ ret.val >= 1
    /\ \E id \in DOMAIN jobs : jobs[id].status = "InProgress" /\ tasks[id].pc # "none"


\* C31: remove_job deletes the record of the id and nothing else, returns
\* TRUE exactly when the record existed, and leaves every task, the queue,
\* the abort handles, the dispatcher loops and the permits as they are; and a
\* record only ever appears for the id of the job created in that step, so a
\* removed job is not inserted again by a status or progress update.
C31_RemoveOnlyTheRecord ==
    [][ /\ ret'.op = "remove_job" =>
              /\ ret'.val = (ret'.id \in DOMAIN jobs)
              /\ DOMAIN jobs' = DOMAIN jobs \ {ret'.id}
              /\ \A i \in DOMAIN jobs' : jobs'[i] = jobs[i]
              /\ UNCHANGED <<tasks, queue, abort_handles, disp, permits>>
        /\ \A i \in DOMAIN jobs' \ DOMAIN jobs : i = nextId + 1 /\ nextId' = nextId + 1 ]_vars

\* The job was removed while its task was running, and the task has gone
\* through its status or progress updates to its end.
C31_Witness ==
    \E id \in 1..nextId :
        /\ id \notin DOMAIN jobs
        /\ tasks[id].pc = "rm_handle"
        /\ id \in abort_handles


\* The status or the processed bytes of the stored job id change in this step.
JobChanges(id) ==
    /\ id \in DOMAIN jobs /\ id \in DOMAIN jobs'
    /\ \/ jobs'[id].status # jobs[id].status
       \/ jobs'[id].processed_bytes # jobs[id].processed_bytes

\* C32: a step that changes the status or the processed bytes of a job emits
\* an update event for it with the new values, and a job whose status is
\* Completed, Failed or Cancelled has finished_at set, in the record and in
\* the event of that transition.
C32_EventsCarryFinish ==
    [][ \A id \in Ids : JobChanges(id) =>
          /\ \E i \in 1..Len(emitted') :
                /\ emitted'[i].name = "transfer-update"
                /\ emitted'[i].job_id = id
                /\ emitted'[i].status = jobs'[id].status
                /\ emitted'[i].processed_bytes = jobs'[id].processed_bytes
                /\ emitted'[i].finished_at = jobs'[id].finished_at
          /\ jobs'[id].status \in {"Completed", "Failed", "Cancelled"} =>
                jobs'[id].finished_at = "Some" ]_vars


\* C33: every pair that has a listing cached has the folder entry of the
\* root (the empty prefix), and every folder entry belongs to a pair that has
\* a listing cached.
C33_RootEntryNoOrphans ==
    /\ \A pb \in DOMAIN object_cache : <<pb[1], pb[2], << >>>> \in DOMAIN folder_cache
    /\ \A k \in DOMAIN folder_cache : has_cache(k[1], k[2])

\* One pair was evicted while another pair keeps its listing, which has a
\* sub-folder.
C33_Witness ==
    /\ cop.op = "remove_bucket_cache"
    /\ ~has_cache(cop.p, cop.arg)
    /\ \E k \in DOMAIN folder_cache : k[3] # << >>


\* C34: no request goes to the network while the command holds the write
\* lock of the S3 manager.
C34_NoRequestUnderWriteLock ==
    [][ Len(call'.requests) > Len(call.requests) => ~call.wlock ]_vars


\* C35: a job that was cancelled while its id was queued is not executed: no
\* step makes a Cancelled job InProgress or takes its task to the put_object
\* or get_object request.
C35_CancelledPendingNotExecuted ==
    [][ \A id \in DOMAIN jobs :
          (jobs[id].status = "Cancelled" /\ id \in DOMAIN jobs') =>
              /\ jobs'[id].status # "InProgress"
              /\ tasks[id].pc = "set_ip" => tasks'[id].pc \notin {"io_up", "io_dl"} ]_vars


\* C36: a list_objects call answered from the cache returns a page, whatever
\* the token and max_keys: a result, not a crash, whose objects are a slice
\* of the folder's list that is no longer than a non-negative max_keys.
C36_CachedPageWellFormed ==
    (call.pc = "returned" /\ call.hit) =>
        \A r \in call.res :
            /\ r.ok
            /\ \A m \in call.max_keys : m >= 0 => Len(r.objects) <= m
            /\ <<call.p, call.b, call.prefix>> \in DOMAIN folder_cache =>
                  LET objs == folder_cache[<<call.p, call.b, call.prefix>>].objects
                  IN  \E i \in 0..Len(objs) : r.objects = SubSeq(objs, i + 1, i + Len(r.objects))


\* ------------------------------------------------------------------ the locks of TransferManager
\* The steps above are the sections that run under one guard.  Here the same
\* operations are the sequences of lock requests and releases they make.
\* tokio's Mutex and RwLock grant in the order of the requests: a request
\* joins the wait queue of its lock and is granted at the head of the queue,
\* a write (or the mutex) when nobody holds the lock, a read when no writer does.
Acq(lock, mode) == [kind |-> "acq", lock |-> lock, mode |-> mode]

Rel(lock) == [kind |-> "rel", lock |-> lock, mode |-> "-"]

\* emit_update: the read guard on app_handle for the statement.
EmitLocks == <<Acq("app_handle", "R"), Rel("app_handle")>>

\* add_job: jobs in a block; the queue guard lives to the end of the
\* function, over the transfer-added emit and emit_update.
AddJobLocks ==
    <<Acq("jobs", "W"), Rel("jobs"), Acq("queue", "W")>> \o EmitLocks \o EmitLocks
        \o <<Rel("queue")>>

\* get_job, list_jobs: the read guard on jobs.
GetLocks == <<Acq("jobs", "R"), Rel("jobs")>>

\* update_job_status / _progress / _total_size: write in a block, get_job, emit.
UpdateLocks == <<Acq("jobs", "W"), Rel("jobs")>> \o GetLocks \o EmitLocks

\* The task with its end under the handle guard before the job is run.
LockProgramHandleGuardFirst(op) ==
    CASE op = "add_job" -> AddJobLocks
      [] op = "cancel_job" ->
            <<Acq("jobs", "W"), Acq("abort_handles", "W"), Rel("abort_handles"), Rel("jobs")>>
                \o EmitLocks
      [] op \in {"remove_job", "clear_completed"} -> <<Acq("jobs", "W"), Rel("jobs")>>
      [] op = "retry_job" -> GetLocks \o AddJobLocks
      [] op \in {"get_job", "list_jobs"} -> GetLocks
      [] op = "set_app_handle" -> <<Acq("app_handle", "W"), Rel("app_handle")>>
      [] op = "dispatcher" ->
            <<Acq("queue", "W"), Rel("queue"), Acq("abort_handles", "W"), Rel("abort_handles")>>
      [] op = "task" ->
            <<Acq("abort_handles", "W")>> \o UpdateLocks \o GetLocks \o UpdateLocks
                \o <<Rel("abort_handles")>>

\* The lock requests and releases of an operation, in program order.
\* Only cancel_job holds jobs and abort_handles together; a dispatcher is one
\* turn of its loop; a task is update_job_status(InProgress), get_job, an
\* update (the progress updates, the second get_job and the final status
\* repeat these two sections) and the removal of its handle.
LockProgram(op) ==
    CASE op = "add_job" -> AddJobLocks
      [] op = "cancel_job" ->
            <<Acq("jobs", "W"), Acq("abort_handles", "W"), Rel("abort_handles"), Rel("jobs")>>
                \o EmitLocks
      [] op \in {"remove_job", "clear_completed"} -> <<Acq("jobs", "W"), Rel("jobs")>>
      [] op = "retry_job" -> GetLocks \o AddJobLocks
      [] op \in {"get_job", "list_jobs"} -> GetLocks
      [] op = "set_app_handle" -> <<Acq("app_handle", "W"), Rel("app_handle")>>
      [] op = "dispatcher" ->
            <<Acq("queue", "W"), Rel("queue"), Acq("abort_handles", "W"), Rel("abort_handles")>>
      [] op = "task" ->
            UpdateLocks \o GetLocks \o UpdateLocks
                \o <<Acq("abort_handles", "W"), Rel("abort_handles")>>

LockOps ==
    {"add_job", "cancel_job", "remove_job", "clear_completed", "retry_job", "get_job",
     "list_jobs", "set_app_handle", "dispatcher", "task"}

\* The instruction process p is at; none when it runs nothing.
LockInstr(p) == IF lk.pc[p].prog # << >> THEN {Head(lk.pc[p].prog)} ELSE {}

IdleLockProc == [task |-> FALSE, prog |-> << >>, waiting |-> FALSE]

LockFrame == UNCHANGED <<jobs, queue, abort_handles, permits, app_handle, nextId, disp, tasks,
                         ret, emitted, cancelled_running, object_cache, folder_cache,
                         bucket_regions, clients, builds, cop, call, pager, remote, mv, em>>

\* An operation starts: it runs to its first request, which joins the queue.
LockStart(p, op) ==
    /\ lk.pc[p].prog = << >>
    /\ lk' = [lk EXCEPT !.pc[p] = [task |-> op = "task", prog |-> LockProgram(op),
                                   waiting |-> TRUE],
                        !.waitq[LockProgram(op)[1].lock] = Append(@, <<p, LockProgram(op)[1].mode>>)]
    /\ LockFrame

\* lock().await / read().await / write().await: the request joins the queue.
LockRequest(p) ==
    /\ ~lk.pc[p].waiting
    /\ \E ins \in LockInstr(p) :
          /\ ins.kind = "acq"
          /\ lk' = [lk EXCEPT !.pc[p].waiting = TRUE,
                              !.waitq[ins.lock] = Append(@, <<p, ins.mode>>)]
    /\ LockFrame

\* The request at the head of the queue is granted.
LockGrant(p) ==
    /\ lk.pc[p].waiting
    /\ \E ins \in LockInstr(p) :
          /\ lk.waitq[ins.lock] # << >>
          /\ Head(lk.waitq[ins.lock]) = <<p, ins.mode>>
          /\ IF ins.mode = "W" THEN lk.held[ins.lock] = {}
             ELSE \A h \in lk.held[ins.lock] : h[2] = "R"
          /\ lk' = [lk EXCEPT !.pc[p].waiting = FALSE, !.pc[p].prog = Tail(@),
                              !.waitq[ins.lock] = Tail(@),
                              !.held[ins.lock] = @ \cup {<<p, ins.mode>>}]
    /\ LockFrame

\* A guard is dropped; after its last release the operation returns.
LockRelease(p) ==
    /\ \E ins \in LockInstr(p) :
          /\ ins.kind = "rel"
          /\ lk' = [lk EXCEPT !.pc[p] = IF Len(lk.pc[p].prog) = 1 THEN IdleLockProc
                                        ELSE [@ EXCEPT !.prog = Tail(@)],
                              !.held[ins.lock] = {h \in @ : h[1] # p}]
    /\ LockFrame

\* abort(): cancel_job, holding jobs and abort_handles, ends the task; the
\* dropped future gives up its guards and its pending request.
LockAbort(p) ==
    /\ lk.pc[p].task
    /\ \E q \in LockProcs : <<q, "W">> \in lk.held["jobs"] /\ <<q, "W">> \in lk.held["abort_handles"]
    /\ lk' = [lk EXCEPT !.pc[p] = IdleLockProc,
                        !.held = [l \in Locks |-> {h \in lk.held[l] : h[1] # p}],
                        !.waitq = [l \in Locks |-> SelectSeq(lk.waitq[l], LAMBDA w : w[1] # p)]]
    /\ LockFrame

LockStep(p) == LockRequest(p) \/ LockGrant(p) \/ LockRelease(p)

NextLockOrder ==
    \/ \E p \in LockProcs : \E op \in LockOps : LockStart(p, op)
    \/ \E p \in LockProcs : LockRequest(p)
    \/ \E p \in LockProcs : LockGrant(p)
    \/ \E p \in LockProcs : LockRelease(p)
    \/ \E p \in LockProcs : LockAbort(p)

\* Every started operation is scheduled: tokio polls a ready future.
LockFairness == \A p \in LockProcs : WF_vars(LockStep(p))

SpecLockOrder == Init /\ [][NextLockOrder]_vars /\ LockFairness

\* C37: no interleaving of the manager's operations, the dispatcher loops and
\* the job tasks deadlocks on jobs, queue, abort_handles and app_handle: a
\* request for a lock that has been made is eventually granted (or its task
\* is aborted), and every started operation returns.
C37_NoDeadlock ==
    \A p \in LockProcs :
        /\ lk.pc[p].waiting ~> ~lk.pc[p].waiting
        /\ lk.pc[p].prog # << >> ~> lk.pc[p].prog = << >>

\* cancel_job holds jobs and waits for abort_handles, which a task holds,
\* while a third operation waits for jobs.
C37_Witness ==
    \E p, q, r \in LockProcs :
        /\ lk.pc[p].waiting /\ <<p, "W">> \in lk.held["jobs"]
        /\ lk.waitq["abort_handles"] # << >> /\ Head(lk.waitq["abort_handles"])[1] = p
        /\ lk.pc[q].task /\ <<q, "W">> \in lk.held["abort_handles"]
        /\ r # p /\ lk.pc[r].waiting /\ lk.waitq["jobs"] # << >> /\ Head(lk.waitq["jobs"])[1] = r

\* C38: in a search whose first page succeeded only through the region
\* retry, every following page is requested with the client of the
\* discovered region.
C38_PagesAfterRetryUseFoundRegion ==
    call.op = "search_objects" =>
        \A i, j \in 1..Len(call.requests) :
            (call.requests[i].kind = "retry" /\ i < j) =>
                call.requests[j].region = call.found


\* ------------------------------------------------------------------ move_object
\* The command as its requests to S3: the listing pages of a folder move, one
\* copy_object per key, and the delete at the end.  A request either succeeds
\* or fails; the profile lookup and the client are part of the request that
\* follows them.
MoveBuckets == {"b1", "b2"}

MoveOk == [ok |-> TRUE, err |-> "None"]

MoveErr(e) == [ok |-> FALSE, err |-> e]

\* The keys uploaded before a move, the source keys and the destination keys.
MoveObjects == {<<"a", "/", "a">>, <<"a", "/", "b">>, <<"b">>}

MoveSources == {<<"a", "/">>, <<"b">>, <<"a", "/", "a">>}

MoveDestinations == {<<"c", "/">>, <<"c">>, <<"a", "/">>}

MaxMovePage == 1      \* keys in one page of the listing of a folder move

MaxMoves == 2         \* move_object commands in one behaviour

IsPrefixOf(t, s) == Len(t) <= Len(s) /\ SubSeq(s, 1, Len(t)) = t

\* key.strip_prefix(&source_key).unwrap_or(key)
StripPrefix(key, prefix) ==
    IF IsPrefixOf(prefix, key) THEN SubSeq(key, Len(prefix) + 1, Len(key)) ELSE key

\* The destination key of a source key.
NewKey(m, key) == IF m.folder THEN m.dk \o StripPrefix(key, m.sk) ELSE m.dk

\* The keys of the bucket under the prefix that a page after the ones
\* listed so far can hold: S3 lists in key order.
KeysAfter(m) ==
    {k \in {o[2] : o \in {x \in remote : x[1] = m.sb}} :
        /\ IsPrefixOf(m.sk, k)
        /\ m.all_keys # << >> => StrLess(m.all_keys[Len(m.all_keys)], k)}

\* The first n keys of a set in key order.
RECURSIVE FirstKeys(_, _)
FirstKeys(keys, n) ==
    IF n = 0 \/ keys = {} THEN << >>
    ELSE LET k == CHOOSE x \in keys : \A y \in keys \ {x} : StrLess(x, y)
         IN  <<k>> \o FirstKeys(keys \ {k}, n - 1)

MoveFrame == UNCHANGED <<jobs, queue, abort_handles, permits, app_handle, nextId, disp, tasks,
                         ret, emitted, cancelled_running, object_cache, folder_cache,
                         bucket_regions, clients, builds, cop, call, pager, lk, em>>

\* An object is uploaded while no move runs.
RemotePut(b, k) ==
    /\ mv.pc = "idle"
    /\ <<b, k>> \notin remote
    /\ remote' = remote \cup {<<b, k>>}
    /\ UNCHANGED mv
    /\ MoveFrame

\* move_object up to its first request: a key that ends with '/' is a
\* folder move and lists; any other key is copied as it is.
MoveStart(sb, sk, db, dk) ==
    /\ mv.pc = "idle"
    /\ mv.moves < MaxMoves
    /\ mv' = [NoMove EXCEPT !.pc = IF EndsWithSlash(sk) THEN "list" ELSE "copy",
                            !.moves = mv.moves + 1,
                            !.sb = sb, !.sk = sk, !.db = db, !.dk = dk,
                            !.folder = EndsWithSlash(sk),
                            !.all_keys = IF EndsWithSlash(sk) THEN << >> ELSE <<sk>>,
                            !.i = 1, !.before = remote]
    /\ UNCHANGED remote
    /\ MoveFrame

\* One page of list_objects_v2 under the source prefix; an error ends the
\* command.  After the last page the loop over all_keys starts; an empty
\* listing returns Ok with nothing copied and nothing deleted.
MoveList(ok, e) ==
    /\ mv.pc = "list"
    /\ LET rest == KeysAfter(mv)
           page == FirstKeys(rest, MaxMovePage)
           truncated == Cardinality(rest) > Len(page)
           keys == mv.all_keys \o page
       IN  mv' = IF ~ok THEN [mv EXCEPT !.pc = "returned", !.res = {MoveErr(e)}]
                 ELSE IF truncated THEN [mv EXCEPT !.all_keys = keys]
                 ELSE IF keys = << >> THEN [mv EXCEPT !.pc = "returned", !.res = {MoveOk}]
                 ELSE [mv EXCEPT !.pc = "copy", !.all_keys = keys]
    /\ UNCHANGED remote
    /\ MoveFrame

\* The copy loop goes on after a failed copy_object.
MoveCopyIgnoresError(ok, e) ==
    /\ mv.pc = "copy"
    /\ LET key == mv.all_keys[mv.i]
           done == ok /\ <<mv.sb, key>> \in remote
           next == IF mv.i = Len(mv.all_keys) THEN "delete" ELSE "copy"
       IN  /\ remote' = IF done THEN remote \cup {<<mv.db, NewKey(mv, key)>>} ELSE remote
           /\ mv' = [mv EXCEPT !.pc = next, !.i = @ + 1,
                               !.copied = IF done THEN @ \cup {key} ELSE @,
                               !.copy_failed = @ \/ ~done]
    /\ MoveFrame

\* copy_object(...).await? for the key the loop is at (the source key of a
\* single move): S3 copies an object that exists; any failure returns the
\* error from move_object.  After the last copy the delete follows.
MoveCopy(ok, e) ==
    /\ mv.pc = "copy"
    /\ LET key == mv.all_keys[mv.i]
           done == ok /\ <<mv.sb, key>> \in remote
           next == IF mv.i = Len(mv.all_keys) THEN "delete" ELSE "copy"
       IN  /\ remote' = IF done THEN remote \cup {<<mv.db, NewKey(mv, key)>>} ELSE remote
           /\ mv' = IF done
                    THEN [mv EXCEPT !.pc = next, !.i = @ + 1, !.copied = @ \cup {key}]
                    ELSE [mv EXCEPT !.pc = "returned", !.copy_failed = TRUE,
                                    !.res = {MoveErr(e)}]
    /\ MoveFrame

\* delete_objects(all_keys) of a folder move, delete_object(source_key) of a
\* single move, with their region retry: the keys are gone, or the error is
\* returned and they are left.
MoveDelete(ok, e) ==
    /\ mv.pc = "delete"
    /\ remote' = IF ok
                 THEN remote \ {<<mv.sb, mv.all_keys[n]>> : n \in 1..Len(mv.all_keys)}
                 ELSE remote
    /\ mv' = [mv EXCEPT !.pc = "returned", !.res = IF ok THEN {MoveOk} ELSE {MoveErr(e)}]
    /\ MoveFrame

\* The caller has the result.
MoveDone ==
    /\ mv.pc = "returned"
    /\ mv' = [NoMove EXCEPT !.moves = mv.moves]
    /\ UNCHANGED remote
    /\ MoveFrame

NextMove ==
    \/ \E k \in MoveObjects : RemotePut("b1", k)
    \/ \E sk \in MoveSources, db \in MoveBuckets, dk \in MoveDestinations :
          MoveStart("b1", sk, db, dk)
    \/ \E ok \in BOOLEAN, e \in NetErrors : MoveList(ok, e)
    \/ \E ok \in BOOLEAN, e \in NetErrors : MoveCopy(ok, e)
    \/ \E ok \in BOOLEAN, e \in NetErrors : MoveDelete(ok, e)
    \/ MoveDone

SpecMove == Init /\ [][NextMove]_vars

\* C39: move_object deletes a source object only after its copy succeeded,
\* a folder move deletes only when every listed key was copied, and when a
\* copy fails the command returns the error with every object that was in S3
\* still there.
C39_DeleteOnlyAfterCopy ==
    /\ [][ \A o \in remote \ remote' :
              /\ o[1] = mv.sb /\ o[2] \in mv.copied
              /\ \A n \in 1..Len(mv.all_keys) : mv.all_keys[n] \in mv.copied ]_vars
    /\ []( (mv.pc = "returned" /\ mv.copy_failed) =>
              /\ mv.before \subseteq remote
              /\ \E r \in mv.res : ~r.ok )

\* A folder move of two objects has copied the first, failed on the second
\* and returned.
C39_Witness ==
    /\ mv.pc = "returned" /\ mv.folder /\ mv.copy_failed
    /\ Len(mv.all_keys) = 2 /\ Cardinality(mv.copied) = 1


\* ------------------------------------------------------------------ the emitters of one job
\* update_job_status, update_job_progress and update_job_total_size are three
\* sections: the write under jobs.write, get_job under jobs.read, and
\* emit_update.  cancel_job writes and clones under one guard and emits after
\* it dropped the guard.  An aborted task runs on to its next pending await:
\* the guards here are free, the transfer's I/O is where it is dropped.
EmitBytes == 2        \* progress updates of the task

EmFrame == UNCHANGED <<jobs, queue, abort_handles, permits, app_handle, nextId, disp, tasks,
                       ret, emitted, cancelled_running, object_cache, folder_cache,
                       bucket_regions, clients, builds, cop, call, pager, lk, remote, mv>>

\* The dispatcher spawns the task.
EmSpawn ==
    /\ em.task.pc = "none"
    /\ em' = [em EXCEPT !.task.pc = "io"]
    /\ EmFrame

\* The write block of an update, on the task's poll after its I/O:
\* InProgress at the start, the processed bytes during the transfer, Failed
\* when the transfer failed, Completed when it ended and the re-read job is
\* not Cancelled (then no update is made).
EmWrite(u) ==
    /\ em.task.pc = "io" /\ ~em.task.aborted
    /\ CASE u = "InProgress" ->
              /\ em.task.phase = "begin"
              /\ em' = [em EXCEPT !.rec.status = "InProgress", !.task.pc = "wrote",
                                  !.task.phase = "transfer"]
         [] u = "progress" ->
              /\ em.task.phase = "transfer" /\ em.rec.processed_bytes < EmitBytes
              /\ em' = [em EXCEPT !.rec.processed_bytes = @ + 1, !.task.pc = "wrote"]
         [] u = "Failed" ->
              /\ em.task.phase = "transfer"
              /\ em' = [em EXCEPT !.rec.status = "Failed", !.task.pc = "wrote",
                                  !.task.phase = "end"]
         [] u = "Completed" ->
              /\ em.task.phase = "transfer"
              /\ em' = IF em.rec.status = "Cancelled"
                       THEN [em EXCEPT !.task.pc = "done", !.task.phase = "end"]
                       ELSE [em EXCEPT !.rec.status = "Completed", !.task.pc = "wrote",
                                       !.task.phase = "end"]
    /\ EmFrame

\* get_job in the update: the task's copy of the record.
EmSnapshot ==
    /\ em.task.pc = "wrote"
    /\ em' = [em EXCEPT !.task.pc = "snapped", !.task.snap = em.rec]
    /\ EmFrame

\* emit_update(&job) with the copy; the task goes on to its I/O, or ends.
EmEmit ==
    /\ em.task.pc = "snapped"
    /\ em' = [em EXCEPT !.stream = Append(@, em.task.snap),
                        !.task.pc = IF em.task.phase = "end" THEN "done" ELSE "io"]
    /\ EmFrame

\* The aborted task is dropped at its pending await.
EmDrop ==
    /\ em.task.pc = "io" /\ em.task.aborted
    /\ em' = [em EXCEPT !.task.pc = "done"]
    /\ EmFrame

\* cancel_job under its guards: Cancelled on a Pending or InProgress job,
\* the clone, and the abort of the task.
EmCancelWrite ==
    /\ em.cancel.pc = "idle"
    /\ em.rec.status \in {"Pending", "InProgress"}
    /\ em' = [em EXCEPT !.rec.status = "Cancelled",
                        !.cancel = [pc |-> "emit", snap |-> [em.rec EXCEPT !.status = "Cancelled"]],
                        !.task.aborted = @ \/ em.task.pc # "none"]
    /\ EmFrame

\* emit_update(&job_clone) of cancel_job, after the guards are dropped.
EmCancelEmit ==
    /\ em.cancel.pc = "emit"
    /\ em' = [em EXCEPT !.stream = Append(@, em.cancel.snap), !.cancel.pc = "idle"]
    /\ EmFrame

NextEmit ==
    \/ EmSpawn
    \/ \E u \in {"InProgress", "progress", "Failed", "Completed"} : EmWrite(u)
    \/ EmSnapshot
    \/ EmEmit
    \/ EmDrop
    \/ EmCancelWrite
    \/ EmCancelEmit

SpecEmit == Init /\ [][NextEmit]_vars

\* C40: once the task has ended and cancel_job has returned, the last update
\* event emitted for the job carries the status and the processed bytes of
\* its record.
C40_LastEventIsRecord ==
    (em.task.pc = "done" /\ em.cancel.pc = "idle") => em.stream[Len(em.stream)] = em.rec

====
